---- MODULE Spec2Model ----
(***************************************************************************)
(* The shorthand-to-LaTeX compiler of QED (src/lib/command/CommandParser.js *)
(* with the dictionaries of the command list), as a state machine, with    *)
(* the palette filter (src/lib/command/AutoComplete.js) and the pattern    *)
(* generator of the earlier parser (src/lib/command/CommandInline.js).     *)
(*                                                                         *)
(* A JavaScript string is a sequence of one-character strings; indices are *)
(* 0-based as in the source (text[i] is CharAt(text, i)).  The recursion   *)
(* of parseRecursive is an explicit stack of frames: one frame per active  *)
(* call, holding that call's locals.                                       *)
(***************************************************************************)
EXTENDS Integers, Sequences, FiniteSets, TLC

----------------------------------------------------------------------------
(* JavaScript string primitives                                            *)

\* text[i] past the end of a string
Undefined == "undefined"

CharAt(text, i) == IF i >= 0 /\ i < Len(text) THEN text[i + 1] ELSE Undefined

Min(a, b) == IF a < b THEN a ELSE b

\* String.prototype.slice(from, to) for 0 <= from: the end is clamped
slice(text, from, to) ==
  LET e == Min(to, Len(text))
  IN IF from >= e THEN <<>> ELSE SubSeq(text, from + 1, e)

\* the characters the ASCII part of \s and of String.prototype.trim removes
WhiteSpace == {" ", "\t", "\n", "\r", "\f"}

RECURSIVE trimStart(_)
trimStart(s) ==
  IF s # <<>> /\ Head(s) \in WhiteSpace THEN trimStart(Tail(s)) ELSE s

RECURSIVE trimEnd(_)
trimEnd(s) ==
  IF s # <<>> /\ s[Len(s)] \in WhiteSpace
  THEN trimEnd(SubSeq(s, 1, Len(s) - 1)) ELSE s

\* a trim that strips the space character only
trimSpacesOnly(s) ==
  LET RECURSIVE st(_)
      st(t) == IF t # <<>> /\ Head(t) = " " THEN st(Tail(t)) ELSE t
      RECURSIVE en(_)
      en(t) == IF t # <<>> /\ t[Len(t)] = " "
               THEN en(SubSeq(t, 1, Len(t) - 1)) ELSE t
  IN en(st(s))

\* String.prototype.trim
trim(s) == trimEnd(trimStart(s))

upperCase ==
  <<"A", "B", "C", "D", "E", "F", "G", "H", "I", "J", "K", "L", "M",
    "N", "O", "P", "Q", "R", "S", "T", "U", "V", "W", "X", "Y", "Z">>

lowerCase ==
  <<"a", "b", "c", "d", "e", "f", "g", "h", "i", "j", "k", "l", "m",
    "n", "o", "p", "q", "r", "s", "t", "u", "v", "w", "x", "y", "z">>

\* a toLowerCase that leaves the string as it is
toLowerCaseOmitted(s) == s

\* String.prototype.toLowerCase, for ASCII
toLowerCase(s) ==
  [k \in 1..Len(s) |->
     IF \E j \in 1..Len(upperCase) : s[k] = upperCase[j]
     THEN lowerCase[CHOOSE j \in 1..Len(upperCase) : s[k] = upperCase[j]]
     ELSE s[k]]

\* String.prototype.startsWith
startsWith(s, prefix) ==
  Len(prefix) <= Len(s) /\ SubSeq(s, 1, Len(prefix)) = prefix

\* String.prototype.indexOf(pat, from): -1 when pat does not occur
RECURSIVE indexOf(_, _, _)
indexOf(s, pat, from) ==
  IF from + Len(pat) > Len(s) THEN -1
  ELSE IF slice(s, from, from + Len(pat)) = pat THEN from
  ELSE indexOf(s, pat, from + 1)

\* String.prototype.split(sep) for a non-empty separator
RECURSIVE split(_, _)
split(s, sep) ==
  LET at == indexOf(s, sep, 0)
  IN IF at < 0 THEN <<s>>
     ELSE <<slice(s, 0, at)>> \o split(slice(s, at + Len(sep), Len(s)), sep)

\* GetSubstitution of String.prototype.replace with a string pattern: in the
\* replacement, $$ is a dollar and $& the matched text; every other character
\* stands for itself (there are no capture groups, so $1 is literal).  The two
\* remaining forms, a dollar before a grave accent or an apostrophe, are spelled
\* by no text explored here.
RECURSIVE GetSubstitution(_, _)
GetSubstitution(repl, matched) ==
  IF repl = <<>> THEN <<>>
  ELSE IF Head(repl) = "$" /\ Len(repl) >= 2 /\ repl[2] \in {"$", "&"}
  THEN (IF repl[2] = "$" THEN <<"$">> ELSE matched)
       \o GetSubstitution(SubSeq(repl, 3, Len(repl)), matched)
  ELSE <<Head(repl)>> \o GetSubstitution(Tail(repl), matched)

\* String.prototype.replace(pat, repl) with a string pattern: the first
\* occurrence only
replace(s, pat, repl) ==
  LET at == indexOf(s, pat, 0)
  IN IF at < 0 THEN s
     ELSE LET before == slice(s, 0, at)
              after == slice(s, at + Len(pat), Len(s))
          IN before \o GetSubstitution(repl, pat) \o after

\* String.prototype.replace(/pat/g, repl) for a pattern without regular
\* expression operators and a replacement without $: every occurrence, left
\* to right, not overlapping
RECURSIVE replaceAll(_, _, _)
replaceAll(s, pat, repl) ==
  LET at == indexOf(s, pat, 0)
  IN IF at < 0 THEN s
     ELSE slice(s, 0, at) \o repl
          \o replaceAll(slice(s, at + Len(pat), Len(s)), pat, repl)

\* the entries of a table whose pattern has the given length, in table order
ofLength(table, n) == SelectSeq(table, LAMBDA e : Len(e.pattern) = n)

\* the entries whose pattern is no longer than n: longest first, equal lengths
\* in table order
RECURSIVE fromLength(_, _)
fromLength(table, n) ==
  IF n < 0 THEN <<>> ELSE ofLength(table, n) \o fromLength(table, n - 1)

\* the length of the longest pattern of a table
RECURSIVE longestPattern(_, _)
longestPattern(table, k) ==
  IF k > Len(table) THEN 0
  ELSE LET n == longestPattern(table, k + 1)
       IN IF Len(table[k].pattern) > n THEN Len(table[k].pattern) ELSE n

\* Array.prototype.sort((a, b) => b.pattern.length - a.pattern.length): a
\* stable sort, longest pattern first, equal lengths in their former order
sortByLengthDesc(table) == fromLength(table, longestPattern(table, 1))

\* the sequences ss[k], ss[k + 1], ... put end to end
RECURSIVE flatFrom(_, _)
flatFrom(ss, k) == IF k > Len(ss) THEN <<>> ELSE ss[k] \o flatFrom(ss, k + 1)

\* flatten a sequence of sequences
flat(ss) == flatFrom(ss, 1)

----------------------------------------------------------------------------
(* The dictionaries                                                        *)

commandsRepo ==
  << [command |-> << <<"f", "o", "r", "a", "l", "l">>,
                    <<"f", "o", "r", " ", "a", "l", "l">> >>,
      symbol |-> <<"\\", "f", "o", "r", "a", "l", "l">>],
     [command |-> << <<"e", "x", "i", "s", "t", "s">>,
                    <<"e", "x", "i", "s", "t">> >>,
      symbol |-> <<"\\", "e", "x", "i", "s", "t", "s">>],
     [command |-> << <<"a", "n", "d">> >>,
      symbol |-> <<"\\", "w", "e", "d", "g", "e">>],
     [command |-> << <<"o", "r">> >>,
      symbol |-> <<"\\", "v", "e", "e">>],
     [command |-> << <<"s", "u", "c", "h", " ", "t", "h", "a", "t">>,
                    <<"s", ".", "t", ".">> >>,
      symbol |-> <<"\\", "c", "o", "l", "o", "n">>],
     [command |-> << <<"n", "e", "g">>,
                    <<"n", "o", "t">> >>,
      symbol |-> <<"\\", "n", "e", "g">>],
     [command |-> << <<"i", "n">>,
                    <<"a", "n", " ", "e", "l", "e", "m", "e", "n", "t", " ", "o", "f">> >>,
      symbol |-> <<"\\", "i", "n">>],
     [command |-> << <<"e", "q", "u", "i", "v">>,
                    <<"c", "o", "n", "g", "r", "u", "e", "n", "t", " ", "t", "o">> >>,
      symbol |-> <<"\\", "e", "q", "u", "i", "v">>],
     [command |-> << <<"i", "m", "p">>,
                    <<"i", "m", "p", "l", "i", "e", "s">> >>,
      symbol |-> <<"\\", "r", "i", "g", "h", "t", "a", "r", "r", "o", "w">>],
     [command |-> << <<"i", "f", "f">>,
                    <<"i", "f", " ", "a", "n", "d", " ", "o", "n", "l", "y", " ", "i", "f">> >>,
      symbol |-> <<"\\", "l", "e", "f", "t", "r", "i", "g", "h", "t", "a", "r", "r", "o", "w">>],
     [command |-> << <<"N", "N">>,
                    <<"n", "a", "t", "u", "r", "a", "l", "s">> >>,
      symbol |-> <<"\\", "m", "a", "t", "h", "b", "b", "{", "N", "}">>],
     [command |-> << <<"p", "i", "n", "t">>,
                    <<"p", "o", "s", "i", "t", "i", "v", "e", " ", "i", "n", "t", "e", "g", "e", "r", "s">> >>,
      symbol |-> <<"\\", "m", "a", "t", "h", "b", "b", "{", "Z", "}", "^", "+">>],
     [command |-> << <<"n", "i", "n", "t">>,
                    <<"n", "e", "g", "a", "t", "i", "v", "e", " ", "i", "n", "t", "e", "g", "e", "r", "s">> >>,
      symbol |-> <<"\\", "m", "a", "t", "h", "b", "b", "{", "Z", "}", "^", "-">>],
     [command |-> << <<"Z", "Z">>,
                    <<"i", "n", "t">>,
                    <<"i", "n", "t", "e", "g", "e", "r", "s">> >>,
      symbol |-> <<"\\", "m", "a", "t", "h", "b", "b", "{", "Z", "}">>],
     [command |-> << <<"Q", "Q">>,
                    <<"r", "a", "t", "i", "o", "n", "a", "l">>,
                    <<"r", "a", "t", "i", "o", "n", "a", "l", " ", "n", "u", "m", "b", "e", "r", "s">> >>,
      symbol |-> <<"\\", "m", "a", "t", "h", "b", "b", "{", "Q", "}">>],
     [command |-> << <<"i", "r", "r", "a", "t", "i", "o", "n", "a", "l">>,
                    <<"i", "r", "r", "a", "t", "i", "o", "n", "a", "l", " ", "n", "u", "m", "b", "e", "r", "s">> >>,
      symbol |-> <<"\\", "m", "a", "t", "h", "b", "b", "{", "Q", "}", "^", "c">>],
     [command |-> << <<"R", "R">>,
                    <<"r", "e", "a", "l", "s">> >>,
      symbol |-> <<"\\", "m", "a", "t", "h", "b", "b", "{", "R", "}">>],
     [command |-> << <<"C", "C">>,
                    <<"c", "o", "m", "p", "l", "e", "x", " ", "n", "u", "m", "b", "e", "r", "s">> >>,
      symbol |-> <<"\\", "m", "a", "t", "h", "b", "b", "{", "C", "}">>],
     [command |-> << <<"{">>,
                    <<"l", "b", "r", "a", "c", "e">> >>,
      symbol |-> <<"\\", "{">>],
     [command |-> << <<"}">>,
                    <<"r", "b", "r", "a", "c", "e">> >>,
      symbol |-> <<"\\", "}">>] >>
commandsList ==
  << [command |-> << <<"f", "o", "r", "a", "l", "l">>,
                    <<"f", "o", "r", " ", "a", "l", "l">> >>,
      symbol |-> <<"\\", "f", "o", "r", "a", "l", "l">>],
     [command |-> << <<"e", "x", "i", "s", "t", "s">> >>,
      symbol |-> <<"\\", "e", "x", "i", "s", "t", "s">>],
     [command |-> << <<"a", "n", "d">> >>,
      symbol |-> <<"\\", "w", "e", "d", "g", "e">>],
     [command |-> << <<"o", "r">> >>,
      symbol |-> <<"\\", "v", "e", "e">>],
     [command |-> << <<"n", "e", "g">> >>,
      symbol |-> <<"\\", "n", "e", "g">>],
     [command |-> << <<"i", "n">> >>,
      symbol |-> <<"\\", "i", "n">>],
     [command |-> << <<"e", "q", "u", "i", "v">> >>,
      symbol |-> <<"\\", "e", "q", "u", "i", "v">>],
     [command |-> << <<"I", "m", "p", "l", "i", "e", "s">> >>,
      symbol |-> <<"\\", "r", "i", "g", "h", "t", "a", "r", "r", "o", "w">>],
     [command |-> << <<"I", "f", "f">> >>,
      symbol |-> <<"\\", "l", "e", "f", "t", "r", "i", "g", "h", "t", "a", "r", "r", "o", "w">>],
     [command |-> << <<"n", "a", "t", "u", "r", "a", "l", "s">> >>,
      symbol |-> <<"\\", "m", "a", "t", "h", "b", "b", "{", "N", "}">>],
     [command |-> << <<"p", "i", "n", "t">> >>,
      symbol |-> <<"\\", "m", "a", "t", "h", "b", "b", "{", "Z", "}", "^", "+">>],
     [command |-> << <<"n", "i", "n", "t">> >>,
      symbol |-> <<"\\", "m", "a", "t", "h", "b", "b", "{", "Z", "}", "^", "-">>],
     [command |-> << <<"i", "n", "t">> >>,
      symbol |-> <<"\\", "m", "a", "t", "h", "b", "b", "{", "Z", "}">>],
     [command |-> << <<"r", "a", "t", "i", "o", "n", "a", "l">> >>,
      symbol |-> <<"\\", "m", "a", "t", "h", "b", "b", "{", "Q", "}">>],
     [command |-> << <<"i", "r", "r", "a", "t", "i", "o", "n", "a", "l">> >>,
      symbol |-> <<"\\", "m", "a", "t", "h", "b", "b", "{", "Q", "}", "^", "c">>],
     [command |-> << <<"r", "e", "a", "l">> >>,
      symbol |-> <<"\\", "m", "a", "t", "h", "b", "b", "{", "R", "}">>],
     [command |-> << <<"c", "o", "m", "p", "l", "e", "x">> >>,
      symbol |-> <<"\\", "m", "a", "t", "h", "b", "b", "{", "C", "}">>] >>
templateCommandsRepo ==
  << [patterns |-> << <<"{", "}", "/", "{", "}">> >>,
      template |-> <<"\\", "f", "r", "a", "c", "{", "{", "0", "}", "}", "{", "{", "1", "}", "}">>],
     [patterns |-> << <<"i", "f", " ", "{", "}", " ", "t", "h", "e", "n", " ", "{", "}">>,
                    <<"i", "f", " ", "{", "}", ",", " ", "t", "h", "e", "n", " ", "{", "}">> >>,
      template |-> <<"{", "{", "0", "}", "}", " ", "\\", "r", "i", "g", "h", "t", "a", "r", "r", "o", "w", " ", "{", "{", "1", "}", "}">>],
     [patterns |-> << <<"m", "o", "d", " ", "{", "}">>,
                    <<"(", "m", "o", "d", " ", "{", "}", ")">>,
                    <<"m", "o", "d", "u", "l", "o", " ", "{", "}">> >>,
      template |-> <<"\\", "!", "\\", "p", "m", "o", "d", "{", "{", "{", "0", "}", "}", "}">>] >>

\* the literal spellings used below
LBRACE_TOKEN == <<"_", "_", "_", "L", "B", "R", "A", "C", "E", "_", "_", "_">>
RBRACE_TOKEN == <<"_", "_", "_", "R", "B", "R", "A", "C", "E", "_", "_", "_">>
placeholder == <<"{", "}">>
square == <<"\\", "s", "q", "u", "a", "r", "e">>
escapedLeft == <<"\\", "{">>
escapedRight == <<"\\", "}">>
thinSpaceComma == <<",", "\\", ";">>
Digit == <<"0", "1", "2", "3", "4", "5", "6", "7", "8", "9">>
\* the template literal `{${idx}}` for idx < 10
slotRef(idx) == <<"{", Digit[idx + 1], "}">>

----------------------------------------------------------------------------
(* matchTemplate                                                           *)

\* while (text[currentIndex] === ' ') currentIndex++
RECURSIVE skipSpaces(_, _)
skipSpaces(text, currentIndex) ==
  IF CharAt(text, currentIndex) = " "
  THEN skipSpaces(text, currentIndex + 1) ELSE currentIndex

\* the capture loop of one placeholder: the value read so far, the index and the
\* parenthesis depth at which the loop stopped
RECURSIVE capture(_, _, _, _, _)
capture(text, currentIndex, nextPart, depth, value) ==
  LET stop == [value |-> value, currentIndex |-> currentIndex, depth |-> depth]
  IN IF currentIndex >= Len(text) THEN stop
     ELSE LET char == text[currentIndex + 1]
              opened == IF char = "(" THEN depth + 1 ELSE depth
          IN IF char = ")" /\ opened = 0 THEN stop
             ELSE LET d == IF char = ")" THEN opened - 1 ELSE opened
                  IN IF /\ d = 0
                        /\ nextPart # <<>>
                        /\ slice(text, currentIndex,
                                 currentIndex + Len(nextPart)) = nextPart
                     THEN [stop EXCEPT !.depth = d]
                     ELSE capture(text, currentIndex + 1, nextPart, d,
                                  Append(value, char))

\* the for loop over the parts of the pattern, from part partIdx on
RECURSIVE matchParts(_, _, _, _, _)
matchParts(text, parts, partIdx, currentIndex, capturedValues) ==
  IF partIdx >= Len(parts)
  THEN [matched |-> TRUE, values |-> capturedValues, endIndex |-> currentIndex]
  ELSE LET part == parts[partIdx + 1]
           literalOk == part = <<>>
                        \/ slice(text, currentIndex, currentIndex + Len(part)) = part
           afterPart == currentIndex + Len(part)
       IN IF ~literalOk
          THEN [matched |-> FALSE, values |-> <<>>, endIndex |-> currentIndex]
          ELSE IF partIdx < Len(parts) - 1
          THEN LET c == capture(text, skipSpaces(text, afterPart),
                                parts[partIdx + 2], 0, <<>>)
               IN matchParts(text, parts, partIdx + 1, c.currentIndex,
                             Append(capturedValues, trim(c.value)))
          ELSE matchParts(text, parts, partIdx + 1, afterPart, capturedValues)

\* a value that is one parenthesised group, without its parentheses
ungrouped(value) ==
  IF Len(value) >= 2 /\ value[1] = "(" /\ value[Len(value)] = ")"
  THEN trim(SubSeq(value, 2, Len(value) - 1)) ELSE value

\* a matcher that drops the grouping parentheses of what it captures
matchTemplateUngrouped(text, i, pattern) ==
  LET m == matchParts(text, split(pattern, placeholder), 0, i, <<>>)
  IN [m EXCEPT !.values = [k \in 1..Len(m.values) |-> ungrouped(m.values[k])]]

\* a matcher that reports the index it started from as the end of the match
matchTemplateNoAdvance(text, i, pattern) ==
  [matchParts(text, split(pattern, placeholder), 0, i, <<>>) EXCEPT !.endIndex = i]

matchTemplate(text, i, pattern) ==
  matchParts(text, split(pattern, placeholder), 0, i, <<>>)

\* one pass of the capture loop's body in which ')' always closes a group
captureIterationUnguarded(c) ==
  LET char == c.text[c.currentIndex + 1]
      d == IF char = "(" THEN c.depth + 1
           ELSE IF char = ")" THEN c.depth - 1 ELSE c.depth
  IN IF /\ d = 0
        /\ c.nextPart # <<>>
        /\ slice(c.text, c.currentIndex, c.currentIndex + Len(c.nextPart)) = c.nextPart
     THEN [c EXCEPT !.depth = d, !.pc = "done"]
     ELSE [c EXCEPT !.depth = d, !.value = Append(@, char),
                    !.currentIndex = @ + 1]

\* one pass of the body of while (currentIndex < text.length) on the locals c:
\* a break leaves the loop (pc done), otherwise the character is added and passed
captureIteration(c) ==
  LET char == c.text[c.currentIndex + 1]
      opened == IF char = "(" THEN c.depth + 1 ELSE c.depth
  IN IF char = ")" /\ opened = 0 THEN [c EXCEPT !.pc = "done"]
     ELSE LET d == IF char = ")" THEN opened - 1 ELSE opened
          IN IF /\ d = 0
                /\ c.nextPart # <<>>
                /\ slice(c.text, c.currentIndex,
                         c.currentIndex + Len(c.nextPart)) = c.nextPart
             THEN [c EXCEPT !.depth = d, !.pc = "done"]
             ELSE [c EXCEPT !.depth = d, !.value = Append(@, char),
                            !.currentIndex = @ + 1]

----------------------------------------------------------------------------
(* parseRecursive: the tests of one scan position                          *)

\* /[\s,\^_{}()\[\]:.]/
BoundaryChars == WhiteSpace \cup {",", "^", "_", "{", "}", "(", ")", "[", "]", ":", "."}

\* a boundary test that is never made
isWordBoundaryAlways(nextChar) == TRUE

isWordBoundary(nextChar) == nextChar = Undefined \/ nextChar \in BoundaryChars

\* the last template of the table that matches at i, 0 when none does
lastTemplate(text, i, templates) ==
  LET hits == {k \in 1..Len(templates) :
                 matchTemplate(text, i, templates[k].pattern).matched}
  IN IF hits = {} THEN 0 ELSE CHOOSE k \in hits : \A j \in hits : k >= j

\* the first template of the table that matches at i, 0 when none does
firstTemplate(text, i, templates) ==
  LET hits == {k \in 1..Len(templates) :
                 matchTemplate(text, i, templates[k].pattern).matched}
  IN IF hits = {} THEN 0 ELSE CHOOSE k \in hits : \A j \in hits : k <= j

aliasMatches(text, i, pattern) ==
  /\ slice(text, i, i + Len(pattern)) = pattern
  /\ isWordBoundary(CharAt(text, i + Len(pattern)))

\* the first alias of the table that matches at i, 0 when none does
firstCommand(text, i, cmds) ==
  LET hits == {k \in 1..Len(cmds) : aliasMatches(text, i, cmds[k].pattern)}
  IN IF hits = {} THEN 0 ELSE CHOOSE k \in hits : \A j \in hits : k <= j

----------------------------------------------------------------------------
(* parseCommandToLatex: pre- and post-processing, the tables               *)

escapeBraces(trimmedText) ==
  replaceAll(replaceAll(trimmedText, <<"{">>, LBRACE_TOKEN), <<"}">>, RBRACE_TOKEN)

restoreBraces(result) ==
  replaceAll(replaceAll(result, LBRACE_TOKEN, escapedLeft), RBRACE_TOKEN, escapedRight)

\* a replace without the g flag: the first comma only
spaceFirstComma(result) == replace(result, <<",">>, thinSpaceComma)

spaceCommas(result) == replaceAll(result, <<",">>, thinSpaceComma)

\* one {pattern, symbol} per alias of every command, in declaration order
buildCmds(commands) ==
  flat([c \in 1..Len(commands) |->
          [a \in 1..Len(commands[c].command) |->
             [pattern |-> commands[c].command[a], symbol |-> commands[c].symbol]]])

\* one {pattern, template} per pattern of every template command
buildTemplates(templateCommands) ==
  flat([t \in 1..Len(templateCommands) |->
          [p \in 1..Len(templateCommands[t].patterns) |->
             [pattern |-> templateCommands[t].patterns[p],
              template |-> templateCommands[t].template]]])

\* the alias table left in declaration order
sortCmdsOmitted(table) == table

\* a sort that puts aliases of equal length in the opposite of their order
sortCmdsTiesReversed(table) ==
  LET backwards == [k \in 1..Len(table) |-> table[Len(table) + 1 - k]]
  IN sortByLengthDesc(backwards)

sortCmds(table) == sortByLengthDesc(table)

sortTemplates(table) == sortByLengthDesc(table)

----------------------------------------------------------------------------
(* filterCommands: the candidates of the command palette                   *)

\* commands.map(cmd => ({ command: cmd, displayAlias: cmd.command[0],
\* matchIndex: 0 })), with the last alias in place of the first
allCommandsLastAlias(commands) ==
  [c \in 1..Len(commands) |->
     [command |-> commands[c],
      displayAlias |-> commands[c].command[Len(commands[c].command)],
      matchIndex |-> 0]]

\* commands.map(cmd => ({ command: cmd, displayAlias: cmd.command[0],
\* matchIndex: 0 }))
allCommands(commands) ==
  [c \in 1..Len(commands) |->
     [command |-> commands[c],
      displayAlias |-> commands[c].command[1],
      matchIndex |-> 0]]

\* a typedText that is no string (undefined, null)
NotAString == <<Undefined>>

\* typeof typedText !== 'string' || typedText.trim() === ''
showsAll(typedText) == typedText = NotAString \/ trim(typedText) = <<>>

\* typedText.toLowerCase().trim()
lowerTypedOf(typedText) == trim(toLowerCase(typedText))

\* lowerAlias === lowerTyped || lowerAlias.startsWith(lowerTyped)
aliasQualifies(alias, lowerTyped) ==
  LET lowerAlias == toLowerCase(alias)
  IN lowerAlias = lowerTyped \/ startsWith(lowerAlias, lowerTyped)

\* matches that show the alias as it was compared, in lower case
matchesOfLowerCased(cmd, lowerTyped) ==
  SelectSeq([a \in 1..Len(cmd.command) |->
               [command |-> cmd,
                displayAlias |-> toLowerCase(cmd.command[a]),
                matchIndex |-> a - 1,
                matchQuality |-> IF toLowerCase(cmd.command[a]) = lowerTyped
                                 THEN 0 ELSE 1,
                aliasLength |-> Len(cmd.command[a])]],
            LAMBDA match : aliasQualifies(match.displayAlias, lowerTyped))

\* the matches pushed for one command: one per qualifying alias, in alias order
matchesOf(cmd, lowerTyped) ==
  SelectSeq([a \in 1..Len(cmd.command) |->
               [command |-> cmd,
                displayAlias |-> cmd.command[a],
                matchIndex |-> a - 1,
                matchQuality |-> IF toLowerCase(cmd.command[a]) = lowerTyped
                                 THEN 0 ELSE 1,
                aliasLength |-> Len(cmd.command[a])]],
            LAMBDA match : aliasQualifies(match.displayAlias, lowerTyped))

\* commands.forEach(cmd => cmd.command.forEach(...)): the matches in
\* dictionary order
collectMatches(commands, lowerTyped) ==
  flat([c \in 1..Len(commands) |-> matchesOf(commands[c], lowerTyped)])

\* a comparator that ranks by alias index and length only
compareWithoutQuality(a, b) ==
  IF a.matchIndex # b.matchIndex THEN a.matchIndex - b.matchIndex
  ELSE a.aliasLength - b.aliasLength

\* the comparator of matches.sort: negative when a goes before b
compare(a, b) ==
  IF a.matchQuality # b.matchQuality THEN a.matchQuality - b.matchQuality
  ELSE IF a.matchIndex # b.matchIndex THEN a.matchIndex - b.matchIndex
  ELSE a.aliasLength - b.aliasLength

\* match put into a sorted list: before the first entry it goes strictly before
RECURSIVE insertSorted(_, _)
insertSorted(sorted, match) ==
  IF sorted = <<>> THEN <<match>>
  ELSE IF compare(match, Head(sorted)) < 0 THEN <<match>> \o sorted
  ELSE <<Head(sorted)>> \o insertSorted(Tail(sorted), match)

RECURSIVE sortedUpTo(_, _)
sortedUpTo(matches, k) ==
  IF k = 0 THEN <<>> ELSE insertSorted(sortedUpTo(matches, k - 1), matches[k])

\* Array.prototype.sort(compare): a stable sort
sortMatches(matches) == sortedUpTo(matches, Len(matches))

\* a filter that keeps every match
removeDuplicatesOmitted(matches) == matches

RECURSIVE uniqueFrom(_, _, _)
uniqueFrom(matches, k, seen) ==
  IF k > Len(matches) THEN <<>>
  ELSE LET key == matches[k].command.symbol
       IN IF key \in seen THEN uniqueFrom(matches, k + 1, seen)
          ELSE <<matches[k]>> \o uniqueFrom(matches, k + 1, seen \cup {key})

\* matches.filter(match => ...) with the Set seen of symbols: the first match
\* of every symbol
removeDuplicates(matches) == uniqueFrom(matches, 1, {})

----------------------------------------------------------------------------
(* generatePatterns: the patterns of a template given by alias groups      *)

\* ' {}'
spacedPlaceholder == <<" ", "{", "}">>

\* `${alias} {}${rest}` when rest is not empty, `${alias} {}` when it is
patternOf(alias, rest) ==
  IF rest # <<>> THEN alias \o spacedPlaceholder \o rest
  ELSE alias \o spacedPlaceholder

RECURSIVE generatePatterns(_)
generatePatterns(aliases) ==
  IF Len(aliases) = 0 THEN << <<>> >>
  ELSE LET firstAliases == Head(aliases)
           restPatterns == generatePatterns(Tail(aliases))
       IN flat([a \in 1..Len(firstAliases) |->
                  [r \in 1..Len(restPatterns) |->
                     patternOf(firstAliases[a], restPatterns[r])]])

----------------------------------------------------------------------------
(* The earlier revision of the parser, kept in CommandInline.js            *)

\* its capture loop: no parenthesis depth, the next literal part always stops it
RECURSIVE captureInline(_, _, _, _)
captureInline(text, currentIndex, nextPart, value) ==
  IF currentIndex >= Len(text)
  THEN [value |-> value, currentIndex |-> currentIndex]
  ELSE IF /\ nextPart # <<>>
          /\ slice(text, currentIndex, currentIndex + Len(nextPart)) = nextPart
  THEN [value |-> value, currentIndex |-> currentIndex]
  ELSE captureInline(text, currentIndex + 1, nextPart,
                     Append(value, text[currentIndex + 1]))

RECURSIVE matchPartsInline(_, _, _, _, _)
matchPartsInline(text, parts, partIdx, currentIndex, capturedValues) ==
  IF partIdx >= Len(parts)
  THEN [matched |-> TRUE, values |-> capturedValues, endIndex |-> currentIndex]
  ELSE LET part == parts[partIdx + 1]
           literalOk == part = <<>>
                        \/ slice(text, currentIndex, currentIndex + Len(part)) = part
           afterPart == currentIndex + Len(part)
       IN IF ~literalOk
          THEN [matched |-> FALSE, values |-> <<>>, endIndex |-> currentIndex]
          ELSE IF partIdx < Len(parts) - 1
          THEN LET c == captureInline(text, skipSpaces(text, afterPart),
                                      parts[partIdx + 2], <<>>)
               IN matchPartsInline(text, parts, partIdx + 1, c.currentIndex,
                                   Append(capturedValues, trim(c.value)))
          ELSE matchPartsInline(text, parts, partIdx + 1, afterPart, capturedValues)

matchTemplateInline(text, i, pattern) ==
  matchPartsInline(text, split(pattern, placeholder), 0, i, <<>>)

\* a boundary test in which a comma ends no word
isWordBoundaryInlineNoComma(nextChar) ==
  nextChar = Undefined \/ nextChar \in WhiteSpace

\* !nextChar || /[\s,]/.test(nextChar)
isWordBoundaryInline(nextChar) ==
  nextChar = Undefined \/ nextChar \in (WhiteSpace \cup {","})

firstTemplateInline(text, i, templates) ==
  LET hits == {k \in 1..Len(templates) :
                 matchTemplateInline(text, i, templates[k].pattern).matched}
  IN IF hits = {} THEN 0 ELSE CHOOSE k \in hits : \A j \in hits : k <= j

firstCommandInline(text, i, cmds) ==
  LET hits == {k \in 1..Len(cmds) :
                 /\ slice(text, i, i + Len(cmds[k].pattern)) = cmds[k].pattern
                 /\ isWordBoundaryInline(CharAt(text, i + Len(cmds[k].pattern)))}
  IN IF hits = {} THEN 0 ELSE CHOOSE k \in hits : \A j \in hits : k <= j

\* parseRecursive(text, cmds, templates) from index i on: what the while loop
\* adds to result. The forEach over the captured values is outputInline.
RECURSIVE parseFromInline(_, _, _, _)
RECURSIVE outputInline(_, _, _, _, _)
parseFromInline(text, i, cmds, templates) ==
  IF i >= Len(text) THEN <<>>
  ELSE LET t == firstTemplateInline(text, i, templates)
           c == firstCommandInline(text, i, cmds)
       IN IF t > 0
          THEN LET m == matchTemplateInline(text, i, templates[t].pattern)
               IN outputInline(templates[t].template, m.values, 0, cmds, templates)
                    \o parseFromInline(text, m.endIndex, cmds, templates)
          ELSE IF c > 0
          THEN cmds[c].symbol
                 \o parseFromInline(text, i + Len(cmds[c].pattern), cmds, templates)
          ELSE <<text[i + 1]>> \o parseFromInline(text, i + 1, cmds, templates)

\* output = output.replace(`{${idx}}`, parsedValue) for the values from idx on
outputInline(output, values, idx, cmds, templates) ==
  IF idx >= Len(values) THEN output
  ELSE outputInline(replace(output, slotRef(idx),
                            parseFromInline(values[idx + 1], 0, cmds, templates)),
                    values, idx + 1, cmds, templates)

parseRecursiveInline(text, cmds, templates) == parseFromInline(text, 0, cmds, templates)

\* tmpl.patterns || generatePatterns(tmpl.aliases), one entry per pattern
buildTemplatesInline(templateCommands) ==
  flat([t \in 1..Len(templateCommands) |->
          LET tmpl == templateCommands[t]
              patterns == IF "patterns" \in DOMAIN tmpl THEN tmpl.patterns
                          ELSE generatePatterns(tmpl.aliases)
          IN [p \in 1..Len(patterns) |->
                [pattern |-> patterns[p], template |-> tmpl.template]]])

parseCommandToLatexInline(text, commands, templateCommands) ==
  LET trimmedText == trim(text)
  IN IF trimmedText = <<>> THEN <<>>
     ELSE spaceCommas(parseRecursiveInline(trimmedText,
                                           sortCmds(buildCmds(commands)),
                                           sortTemplates(buildTemplatesInline(templateCommands))))

----------------------------------------------------------------------------
(* The calls that are explored                                             *)

\* the command list of the template revision, with its templates
DictRepo == [commands |-> commandsRepo, templateCommands |-> templateCommandsRepo]

\* the command list without templates: parseCommandToLatex(text, commands),
\* templateCommands = [] by default
DictList == [commands |-> commandsList, templateCommands |-> <<>>]

reverse(s) == [k \in 1..Len(s) |-> s[Len(s) + 1 - k]]

\* the same entries as DictRepo, declared in the opposite order
DictReversed ==
  [commands |-> reverse([c \in 1..Len(commandsRepo) |->
                           [command |-> reverse(commandsRepo[c].command),
                            symbol |-> commandsRepo[c].symbol]]),
   templateCommands |-> reverse([t \in 1..Len(templateCommandsRepo) |->
                           [patterns |-> reverse(templateCommandsRepo[t].patterns),
                            template |-> templateCommandsRepo[t].template]])]

Dictionaries == {DictRepo, DictList, DictReversed}

\* the pieces typed texts are put together from
Chunks ==
  { <<"m", "o", "d", " ">>, <<"/">>, <<"(">>, <<")">>, <<"{">>, <<",">>, <<" ">>,
    <<"1">>, <<"R", "R">> }

\* at most MaxChunks chunks in a typed text
MaxChunks == 3

RECURSIVE ChunkTexts(_)
ChunkTexts(n) ==
  IF n = 0 THEN {<<>>}
  ELSE LET shorter == ChunkTexts(n - 1)
       IN shorter \cup {t \o c : t \in shorter, c \in Chunks}

\* the texts of the documented examples, and texts that spell a sentinel token
text_mod5 == <<"m", "o", "d", " ", "5">>
text_forall == <<"f", "o", "r", "a", "l", "l">>
text_RRsquared == <<"R", "R", "^", "2">>
text_forall67 == <<"f", "o", "r", "a", "l", "l", "6", "7">>
text_RRabc == <<"R", "R", "a", "b", "c">>
text_anElementOf == <<"a", "n", " ", "e", "l", "e", "m", "e", "n", "t", " ", "o", "f">>
text_rationalNumbers == <<"r", "a", "t", "i", "o", "n", "a", "l", " ", "n", "u", "m", "b", "e", "r", "s">>
text_ifParen == <<"i", "f", " ", "(", "x", " ", "a", "n", "d", " ", "y", ")", " ", "t", "h", "e", "n", " ", "z">>
text_nested == <<"i", "f", " ", "f", "o", "r", "a", "l", "l", " ", "x", " ", "m", "o", "d", " ", "3", " ", "t", "h", "e", "n", " ", "x", " ", "i", "n", " ", "Z", "Z">>
text_oneOverTwo == <<"1", "/", "2">>
text_sentinelTyped == <<"_", "_", "_", "L", "B", "R", "A", "C", "E", "_", "_", "_">>
text_sentinelThenBrace == <<"_", "_", "_", "L", "B", "R", "A", "C", "E", "_", "_", "}">>
text_dollarAmp == <<"m", "o", "d", " ", "$", "&">>
text_blank == <<" ", "\t", " ">>
text_modGroup == <<"(", "m", "o", "d", " ", "(", "1", ")", ")">>
text_for == <<"f", "o", "r">>

Examples ==
  { text_mod5,
    text_forall,
    text_RRsquared,
    text_forall67,
    text_RRabc,
    text_anElementOf,
    text_rationalNumbers,
    text_ifParen,
    text_nested,
    text_oneOverTwo,
    text_sentinelTyped,
    text_sentinelThenBrace,
    text_dollarAmp,
    text_blank,
    text_modGroup,
    text_for }

\* the calls parseCommandToLatex(text, commands, templateCommands) explored: every
\* chunk text with the repository's dictionary, every example with every dictionary
Calls ==
  {[text |-> t, dict |-> DictRepo] : t \in ChunkTexts(MaxChunks)}
  \cup {[text |-> t, dict |-> d] : t \in Examples, d \in Dictionaries}

\* the dictionaries filterCommands(commands, typedText) is explored with
PaletteDictionaries == {commandsRepo, commandsList, DictReversed.commands}

\* the characters typed texts of the palette are put together from
TypedChars == {"i", "n", "I", "r", " ", "x"}

\* at most MaxTyped characters in such a typed text
MaxTyped == 2

RECURSIVE TypedTexts(_)
TypedTexts(n) ==
  IF n = 0 THEN {<<>>}
  ELSE LET shorter == TypedTexts(n - 1)
       IN shorter \cup {t \o <<c>> : t \in shorter, c \in TypedChars}

typed_in == <<"i", "n">>
typed_int == <<"i", "n", "t">>
typed_IMP == <<" ", "I", "M", "P">>
typed_rational == <<"r", "a", "t", "i", "o", "n", "a", "l">>
typed_tab == <<"\t">>

TypedExamples ==
  {typed_in, typed_int, typed_IMP, typed_rational, typed_tab, NotAString}

\* the calls filterCommands(commands, typedText) explored
PaletteCalls ==
  {[typedText |-> t, commands |-> d] :
     t \in TypedTexts(MaxTyped) \cup TypedExamples, d \in PaletteDictionaries}

alias_congruentTo == <<"c", "o", "n", "g", "r", "u", "e", "n", "t", " ", "t", "o">>
alias_equiv == <<"e", "q", "u", "i", "v">>
alias_modulo == <<"m", "o", "d", "u", "l", "o">>
alias_mod == <<"m", "o", "d">>

\* the aliases alias groups are put together from
Aliases == {alias_equiv, alias_modulo, alias_mod}

\* the alias groups of the documented example
aliases_congruence ==
  << <<alias_congruentTo, alias_equiv>>, <<alias_modulo, alias_mod>> >>

\* at most MaxGroupSize aliases in a group, at most MaxGroups groups
MaxGroupSize == 2
MaxGroups == 2

RECURSIVE ListsOf(_, _)
ListsOf(S, n) ==
  IF n = 0 THEN {<<>>}
  ELSE LET shorter == ListsOf(S, n - 1)
       IN shorter \cup {Append(l, e) : l \in shorter, e \in S}

\* the alias groups, the empty group among them
AliasGroups == ListsOf(Aliases, MaxGroupSize)

\* the calls generatePatterns(aliases) explored
AliasGroupLists == ListsOf(AliasGroups, MaxGroups) \cup {aliases_congruence}

\* the captures explored: texts of at most MaxCaptureLen characters, with
\* parentheses, read from any index up to the literal that follows the placeholder
CaptureChars == {"(", ")", "x", "/"}
MaxCaptureLen == 4
CaptureTexts == UNION {[1..n -> CaptureChars] : n \in 0..MaxCaptureLen}
NextParts == {<<>>, <<"/">>, <<")">>}
\* the paragraphs explored: at most MaxInlines inline nodes (command-inputs,
\* math nodes) with a text node before, between and after them, as the editor
\* keeps its paragraphs
MaxInlines == 2
NodeTexts == {<<>>, <<"a", "b">>}
CommandTexts == {<<>>, <<" ">>, <<"R", "R">>, <<"m", "o", "d", " ", "5">>}
MathLatex == {<<"x">>}
\* the texts and typed texts of a session, and its dictionaries
SessionTexts == {text_mod5, text_blank, text_RRsquared}
SessionTyped == {<<>>, typed_in, typed_IMP}
SessionDictionaries == {DictRepo, DictList}
----------------------------------------------------------------------------
(* The state: a call of parseCommandToLatex, a call of filterCommands, a    *)
(* call of generatePatterns                                                *)

VARIABLES
  text,              \* the argument text
  commands,          \* the argument commands
  templateCommands,  \* the argument templateCommands
  pc,                \* where the call is: call, scan, subst, post or done
  cmds,              \* the alias table handed to parseRecursive
  templates,         \* the template table handed to parseRecursive
  stack,             \* the active calls of parseRecursive, innermost last
  result,            \* the result of the outermost parseRecursive, then of the call
  step,              \* what the scan loop did last
  pieces,            \* what the outermost scan loop did, in order
  typedText,         \* the argument typedText of filterCommands
  fpc,               \* where that call is: idle, call, sort, filter or done
  matches,           \* its array matches
  unique,            \* the array it returns
  aliases,           \* the argument aliases of generatePatterns
  gpc,               \* where that call is: idle, call or done
  patterns,          \* the array it returns
  kept,              \* a returned value the caller has kept, with its call
  cap,               \* the locals of one placeholder capture of matchTemplate
  children,          \* the children of the editor's paragraph
  selection,         \* the editor's collapsed selection
  handled,           \* what the key handler returned
  epc,               \* where the key handler is: idle, parse or done; in
                     \* BlockEditor, changed while onChange is due
  showCommands,      \* BlockEditor's state showCommands
  commandPos,        \* BlockEditor's state commandPos
  activeCommandInputPath, \* BlockEditor's state activeCommandInputPath
  filteredCommands,  \* BlockEditor's state filteredCommands
  selectedIndex      \* BlockEditor's state selectedIndex

\* the palette's call and the pattern generator's
paletteVars == <<typedText, fpc, matches, unique>>
patternVars == <<aliases, gpc, patterns>>

\* the capture loop's locals, the editor with its key handler, BlockEditor's state
captureVars == <<cap>>
keyVars == <<children, selection, handled, epc>>
blockVars == <<showCommands, commandPos, activeCommandInputPath, filteredCommands,
               selectedIndex>>
restVars == <<captureVars, keyVars, blockVars>>

vars == <<text, commands, templateCommands, pc, cmds, templates, stack, result,
          step, pieces, paletteVars, patternVars, kept, restVars>>

\* a call of parseRecursive that goes on from the result left by the call before
newFrameKeepingResult(value) ==
  [text |-> value, i |-> 0, result |-> result,
   template |-> <<>>, pattern |-> <<>>, output |-> <<>>, values |-> <<>>,
   idx |-> 0, finals |-> <<>>, endIndex |-> 0]

\* the locals of a call parseRecursive(value, cmds, templates) on entry
newFrame(value) ==
  [text |-> value, i |-> 0, result |-> <<>>,
   template |-> <<>>, pattern |-> <<>>, output |-> <<>>, values |-> <<>>,
   idx |-> 0, finals |-> <<>>, endIndex |-> 0]

noStep ==
  [kind |-> "none", text |-> <<>>, at |-> 0, end |-> 0, pattern |-> <<>>,
   out |-> <<>>, template |-> <<>>, values |-> <<>>, finals |-> <<>>]

top == stack[Len(stack)]

setTop(frame) == [stack EXCEPT ![Len(stack)] = frame]

\* parsedValue || '\\square'
finalValueOf(parsedValue) == IF parsedValue = <<>> THEN square ELSE parsedValue

\* output.replace(`{${idx}}`, finalValue)
substitute(output, idx, finalValue) == replace(output, slotRef(idx), finalValue)

\* result += text[i + 1]
passThroughNext(res, txt, i) == Append(res, CharAt(txt, i + 1))

\* result += text[i]
passThrough(res, txt, i) == Append(res, txt[i + 1])

\* what the outermost loop did is recorded, what nested calls did is not
record(entry) == IF Len(stack) = 1 THEN Append(pieces, entry) ELSE pieces

\* nothing kept
noCall == [fn |-> "none", arg |-> <<>>, value |-> <<>>, other |-> FALSE, again |-> FALSE]

\* what has been called since a value was kept: `other` once a call differs from
\* the kept one in function or argument, `again` once the kept call is made
\* again after such a call
noteCall(fn, arg) ==
  IF kept = noCall THEN kept
  ELSE IF kept.fn = fn /\ kept.arg = arg THEN [kept EXCEPT !.again = kept.other]
  ELSE [kept EXCEPT !.other = TRUE]

\* no call of filterCommands under way
PaletteIdle ==
  /\ typedText = <<>>
  /\ fpc = "idle"
  /\ matches = <<>>
  /\ unique = <<>>

\* no call of generatePatterns under way
PatternIdle ==
  /\ aliases = <<>>
  /\ gpc = "idle"
  /\ patterns = <<>>

\* the locals of parseCommandToLatex before any call
ParserFresh ==
  /\ cmds = <<>>
  /\ templates = <<>>
  /\ stack = <<>>
  /\ result = <<>>
  /\ step = noStep
  /\ pieces = <<>>

\* no capture under way
noCapture ==
  [text |-> <<>>, start |-> 0, currentIndex |-> 0, nextPart |-> <<>>, depth |-> 0,
   value |-> <<>>, pc |-> "idle"]

CaptureIdle == cap = noCapture

\* null, where the code holds a path or null: no node has the empty path but
\* the editor itself
Null == <<>>

\* editor.selection: none (null, or a range, which no handler acts on) or a
\* caret (a collapsed selection)
noSelection == [kind |-> "none", path |-> Null, offset |-> 0]

\* the key pressed last, what its handler returned ("pending" while it runs) and
\* the document and the caret it was pressed on: no key yet
noKey == [key |-> "none", returned |-> "none", children |-> <<>>,
          selection |-> noSelection]

\* no editor mounted
KeysIdle ==
  /\ children = <<>>
  /\ selection = noSelection
  /\ handled = noKey
  /\ epc = "idle"

\* useState(false), useState(null), useState(null), useState([]), useState(0)
BlockIdle ==
  /\ showCommands = FALSE
  /\ commandPos = "null"
  /\ activeCommandInputPath = Null
  /\ filteredCommands = <<>>
  /\ selectedIndex = 0

RestIdle ==
  /\ CaptureIdle
  /\ KeysIdle
  /\ BlockIdle

Init ==
  /\ \E call \in Calls :
       /\ text = call.text
       /\ commands = call.dict.commands
       /\ templateCommands = call.dict.templateCommands
  /\ pc = "call"
  /\ ParserFresh
  /\ PaletteIdle
  /\ PatternIdle
  /\ kept = noCall
  /\ RestIdle

\* if (!trimmedText) return ''
ReturnEmpty ==
  /\ pc = "call"
  /\ trim(text) = <<>>
  /\ result' = <<>>
  /\ pc' = "done"
  /\ UNCHANGED <<text, commands, templateCommands, cmds, templates, stack, step,
                 pieces>>
  /\ UNCHANGED <<paletteVars, patternVars, kept>>
  /\ UNCHANGED restVars

\* the alias list of every command of a dictionary, longest alias first
aliasesSorted(dictionary) ==
  [c \in 1..Len(dictionary) |->
     [dictionary[c] EXCEPT !.command =
        LET table == sortByLengthDesc([a \in 1..Len(@) |-> [pattern |-> @[a]]])
        IN [a \in 1..Len(table) |-> table[a].pattern]]]

\* a Prepare that sorts the alias lists of the argument commands in place
PrepareSortingAliases ==
  /\ pc = "call"
  /\ trim(text) # <<>>
  /\ commands' = aliasesSorted(commands)
  /\ cmds' = sortCmds(buildCmds(commands'))
  /\ templates' = sortTemplates(buildTemplates(templateCommands))
  /\ stack' = <<newFrame(escapeBraces(trim(text)))>>
  /\ pc' = "scan"
  /\ UNCHANGED <<text, templateCommands, result, step, pieces>>
  /\ UNCHANGED <<paletteVars, patternVars, kept>>
  /\ UNCHANGED restVars

\* escape the braces, build and sort the tables, call parseRecursive
Prepare ==
  /\ pc = "call"
  /\ trim(text) # <<>>
  /\ cmds' = sortCmds(buildCmds(commands))
  /\ templates' = sortTemplates(buildTemplates(templateCommands))
  /\ stack' = <<newFrame(escapeBraces(trim(text)))>>
  /\ pc' = "scan"
  /\ UNCHANGED <<text, commands, templateCommands, result, step, pieces>>
  /\ UNCHANGED <<paletteVars, patternVars, kept>>
  /\ UNCHANGED restVars

\* Priority 1: template k is the first of the table that matches at i
TemplateMatch(k) ==
  /\ LET m == matchTemplate(top.text, top.i, templates[k].pattern)
     IN /\ stack' = setTop([top EXCEPT !.template = templates[k].template,
                                       !.pattern = templates[k].pattern,
                                       !.output = templates[k].template,
                                       !.values = m.values,
                                       !.idx = 0,
                                       !.finals = <<>>,
                                       !.endIndex = m.endIndex])
        /\ step' = [noStep EXCEPT !.kind = "match", !.text = top.text,
                                  !.at = top.i, !.end = m.endIndex,
                                  !.pattern = templates[k].pattern,
                                  !.template = templates[k].template,
                                  !.values = m.values]
  /\ pc' = "subst"
  /\ UNCHANGED <<text, commands, templateCommands, cmds, templates, result, pieces>>
  /\ UNCHANGED <<paletteVars, patternVars, kept>>
  /\ UNCHANGED restVars

\* the forEach over the captured values: parseRecursive(value, cmds, templates)
Recurse ==
  /\ pc = "subst"
  /\ top.idx < Len(top.values)
  /\ stack' = Append(stack, newFrame(top.values[top.idx + 1]))
  /\ pc' = "scan"
  /\ UNCHANGED <<text, commands, templateCommands, cmds, templates, result, step,
                 pieces>>
  /\ UNCHANGED <<paletteVars, patternVars, kept>>
  /\ UNCHANGED restVars

\* a nested parseRecursive returns: its value goes into the caller's output
ReturnValue ==
  /\ pc = "scan"
  /\ top.i >= Len(top.text)
  /\ Len(stack) > 1
  /\ LET caller == stack[Len(stack) - 1]
         finalValue == finalValueOf(top.result)
     IN stack' = [k \in 1..(Len(stack) - 1) |->
                    IF k < Len(stack) - 1 THEN stack[k]
                    ELSE [caller EXCEPT
                            !.output = substitute(caller.output, caller.idx, finalValue),
                            !.finals = Append(caller.finals, finalValue),
                            !.idx = caller.idx + 1]]
  /\ pc' = "subst"
  /\ UNCHANGED <<text, commands, templateCommands, cmds, templates, result, step,
                 pieces>>
  /\ UNCHANGED <<paletteVars, patternVars, kept>>
  /\ UNCHANGED restVars

\* after the forEach: result += output; i = matchResult.endIndex
AppendOutput ==
  /\ pc = "subst"
  /\ top.idx >= Len(top.values)
  /\ stack' = setTop([top EXCEPT !.result = top.result \o top.output,
                                 !.i = top.endIndex])
  /\ step' = [noStep EXCEPT !.kind = "template", !.text = top.text,
                            !.at = top.i, !.end = top.endIndex,
                            !.pattern = top.pattern, !.out = top.output,
                            !.template = top.template, !.values = top.values,
                            !.finals = top.finals]
  /\ pieces' = record([kind |-> "template", at |-> top.i, end |-> top.endIndex,
                       pattern |-> top.pattern, values |-> top.values,
                       out |-> top.output])
  /\ pc' = "scan"
  /\ UNCHANGED <<text, commands, templateCommands, cmds, templates, result>>
  /\ UNCHANGED <<paletteVars, patternVars, kept>>
  /\ UNCHANGED restVars

\* Priority 2: alias k is the first of the table that matches at i
CommandMatch(k) ==
  /\ stack' = setTop([top EXCEPT !.result = top.result \o cmds[k].symbol,
                                 !.i = top.i + Len(cmds[k].pattern)])
  /\ step' = [noStep EXCEPT !.kind = "alias", !.text = top.text,
                            !.at = top.i,
                            !.end = top.i + Len(cmds[k].pattern),
                            !.pattern = cmds[k].pattern,
                            !.out = cmds[k].symbol]
  /\ pieces' = record([kind |-> "alias", at |-> top.i,
                       end |-> top.i + Len(cmds[k].pattern),
                       pattern |-> cmds[k].pattern, values |-> <<>>,
                       out |-> cmds[k].symbol])
  /\ UNCHANGED <<text, commands, templateCommands, pc, cmds, templates, result>>
  /\ UNCHANGED <<paletteVars, patternVars, kept>>
  /\ UNCHANGED restVars

\* Fallback: append the character unchanged
Passthrough ==
  /\ stack' = setTop([top EXCEPT !.result = passThrough(top.result, top.text, top.i),
                                 !.i = top.i + 1])
  /\ step' = [noStep EXCEPT !.kind = "pass", !.text = top.text, !.at = top.i,
                            !.end = top.i + 1,
                            !.out = <<top.text[top.i + 1]>>]
  /\ pieces' = record([kind |-> "pass", at |-> top.i, end |-> top.i + 1,
                       pattern |-> <<>>, values |-> <<>>,
                       out |-> <<top.text[top.i + 1]>>])
  /\ UNCHANGED <<text, commands, templateCommands, pc, cmds, templates, result>>
  /\ UNCHANGED <<paletteVars, patternVars, kept>>
  /\ UNCHANGED restVars

\* one iteration of while (i < text.length): templates first, then aliases,
\* then the character itself
Scan ==
  /\ pc = "scan"
  /\ top.i < Len(top.text)
  /\ LET t == firstTemplate(top.text, top.i, templates)
         c == firstCommand(top.text, top.i, cmds)
     IN \/ t # 0 /\ TemplateMatch(t)
        \/ t = 0 /\ c # 0 /\ CommandMatch(c)
        \/ t = 0 /\ c = 0 /\ Passthrough

\* the outermost parseRecursive returns to parseCommandToLatex
ReturnResult ==
  /\ pc = "scan"
  /\ top.i >= Len(top.text)
  /\ Len(stack) = 1
  /\ result' = top.result
  /\ stack' = <<>>
  /\ pc' = "post"
  /\ UNCHANGED <<text, commands, templateCommands, cmds, templates, step, pieces>>
  /\ UNCHANGED <<paletteVars, patternVars, kept>>
  /\ UNCHANGED restVars

\* restore the braces, space the commas, return
PostProcess ==
  /\ pc = "post"
  /\ result' = spaceCommas(restoreBraces(result))
  /\ pc' = "done"
  /\ UNCHANGED <<text, commands, templateCommands, cmds, templates, stack, step,
                 pieces>>
  /\ UNCHANGED <<paletteVars, patternVars, kept>>
  /\ UNCHANGED restVars

Next ==
  \/ ReturnEmpty
  \/ Prepare
  \/ Scan
  \/ Recurse
  \/ ReturnValue
  \/ AppendOutput
  \/ ReturnResult
  \/ PostProcess

Spec == Init /\ [][Next]_vars

----------------------------------------------------------------------------
(* filterCommands, step by step                                            *)

parserVars ==
  <<text, commands, templateCommands, pc, cmds, templates, stack, result, step,
    pieces>>

PaletteInit ==
  /\ \E call \in PaletteCalls :
       /\ typedText = call.typedText
       /\ commands = call.commands
  /\ templateCommands = <<>>
  /\ text = <<>>
  /\ pc = "idle"
  /\ ParserFresh
  /\ fpc = "call"
  /\ matches = <<>>
  /\ unique = <<>>
  /\ PatternIdle
  /\ kept = noCall
  /\ RestIdle

\* typedText is no string or blank: every command with its first alias
ReturnAll ==
  /\ fpc = "call"
  /\ showsAll(typedText)
  /\ unique' = allCommands(commands)
  /\ fpc' = "done"
  /\ UNCHANGED <<typedText, matches>>
  /\ UNCHANGED <<parserVars, patternVars, kept>>
  /\ UNCHANGED restVars

\* const matches = []; commands.forEach(...)
CollectMatches ==
  /\ fpc = "call"
  /\ ~showsAll(typedText)
  /\ matches' = collectMatches(commands, lowerTypedOf(typedText))
  /\ fpc' = "sort"
  /\ UNCHANGED <<typedText, unique>>
  /\ UNCHANGED <<parserVars, patternVars, kept>>
  /\ UNCHANGED restVars

\* matches.sort(...)
SortMatches ==
  /\ fpc = "sort"
  /\ matches' = sortMatches(matches)
  /\ fpc' = "filter"
  /\ UNCHANGED <<typedText, unique>>
  /\ UNCHANGED <<parserVars, patternVars, kept>>
  /\ UNCHANGED restVars

\* const unique = matches.filter(...); return unique
RemoveDuplicates ==
  /\ fpc = "filter"
  /\ unique' = removeDuplicates(matches)
  /\ fpc' = "done"
  /\ UNCHANGED <<typedText, matches>>
  /\ UNCHANGED <<parserVars, patternVars, kept>>
  /\ UNCHANGED restVars

PaletteNext ==
  \/ ReturnAll
  \/ CollectMatches
  \/ SortMatches
  \/ RemoveDuplicates

PaletteSpec == PaletteInit /\ [][PaletteNext]_vars

----------------------------------------------------------------------------
(* generatePatterns                                                        *)

PatternInit ==
  /\ aliases \in AliasGroupLists
  /\ gpc = "call"
  /\ patterns = <<>>
  /\ commands = <<>>
  /\ templateCommands = <<>>
  /\ text = <<>>
  /\ pc = "idle"
  /\ ParserFresh
  /\ PaletteIdle
  /\ kept = noCall
  /\ RestIdle

GeneratePatterns ==
  /\ gpc = "call"
  /\ patterns' = generatePatterns(aliases)
  /\ gpc' = "done"
  /\ UNCHANGED aliases
  /\ UNCHANGED <<parserVars, paletteVars, kept>>
  /\ UNCHANGED restVars

PatternNext == GeneratePatterns

PatternSpec == PatternInit /\ [][PatternNext]_vars

----------------------------------------------------------------------------
(* A session: calls of parseCommandToLatex and of filterCommands, one after *)
(* another and interleaved, on the same dictionaries                       *)

SessionInit ==
  /\ \E dict \in SessionDictionaries :
       /\ commands = dict.commands
       /\ templateCommands = dict.templateCommands
  /\ text = <<>>
  /\ pc = "idle"
  /\ ParserFresh
  /\ PaletteIdle
  /\ PatternIdle
  /\ kept = noCall
  /\ RestIdle

\* parseCommandToLatex(t, commands, templateCommands) is called: the locals of
\* the call before are whatever that call left
CallParse ==
  /\ pc \in {"idle", "done"}
  /\ \E t \in SessionTexts : text' = t
  /\ pc' = "call"
  /\ step' = noStep
  /\ pieces' = <<>>
  /\ kept' = noteCall("parseCommandToLatex", text')
  /\ UNCHANGED <<commands, templateCommands, cmds, templates, stack, result>>
  /\ UNCHANGED <<paletteVars, patternVars>>
  /\ UNCHANGED restVars

\* filterCommands(commands, t) is called
CallFilter ==
  /\ fpc \in {"idle", "done"}
  /\ \E t \in SessionTyped : typedText' = t
  /\ fpc' = "call"
  /\ kept' = noteCall("filterCommands", typedText')
  /\ UNCHANGED <<matches, unique>>
  /\ UNCHANGED <<parserVars, patternVars>>
  /\ UNCHANGED restVars

\* the caller keeps what parseCommandToLatex returned
KeepResult ==
  /\ kept = noCall
  /\ pc = "done"
  /\ kept' = [noCall EXCEPT !.fn = "parseCommandToLatex", !.arg = text,
                           !.value = result]
  /\ UNCHANGED <<parserVars, paletteVars, patternVars>>
  /\ UNCHANGED restVars

\* the caller keeps what filterCommands returned
KeepFiltered ==
  /\ kept = noCall
  /\ fpc = "done"
  /\ kept' = [noCall EXCEPT !.fn = "filterCommands", !.arg = typedText,
                           !.value = unique]
  /\ UNCHANGED <<parserVars, paletteVars, patternVars>>
  /\ UNCHANGED restVars

SessionNext ==
  \/ CallParse
  \/ CallFilter
  \/ KeepResult
  \/ KeepFiltered
  \/ Next
  \/ PaletteNext

SessionSpec == SessionInit /\ [][SessionNext]_vars

----------------------------------------------------------------------------
(* The editor: one paragraph, a caret, the key handlers                    *)

\* the children of the paragraph: text nodes, command-input elements (text is
\* the text of their only child) and math elements (their child is the text '')
textNode(t) == [type |-> "text", text |-> t, latex |-> <<>>]
commandInput(t) == [type |-> "command-input", text |-> t, latex |-> <<>>]
math(latex) == [type |-> "math", text |-> <<>>, latex |-> latex]
paragraph == [type |-> "paragraph", text |-> <<>>, latex |-> <<>>]

Inlines ==
  {commandInput(t) : t \in CommandTexts} \cup {math(l) : l \in MathLatex}

RECURSIVE Paragraphs(_)
Paragraphs(n) ==
  IF n = 0 THEN {<<textNode(t)>> : t \in NodeTexts}
  ELSE LET fewer == Paragraphs(n - 1)
       IN fewer \cup {p \o <<e, textNode(t)>> :
                        p \in {q \in fewer : Len(q) = 2 * n - 1},
                        e \in Inlines, t \in NodeTexts}

\* the path [0, k] of child k (0-based) of the paragraph, and of its text child
pathOf(k) == <<0, k>>
textPathOf(k) == <<0, k, 0>>

caretAt(path, offset) == [kind |-> "caret", path |-> path, offset |-> offset]

\* every place the caret can be in: an offset of a text child, or of the text
\* of an inline child
Carets(kids) ==
  UNION {{caretAt(IF kids[j].type = "text" THEN pathOf(j - 1) ELSE textPathOf(j - 1), o) :
            o \in 0..Len(kids[j].text)} : j \in 1..Len(kids)}

\* const [node, path] = Editor.node(editor, selection.anchor.path): the text
\* node the caret is in
nodeAt(kids, path) ==
  IF Len(path) = 2 THEN kids[path[2] + 1] ELSE textNode(kids[path[2] + 1].text)

getParent(kids, path) ==
  IF Len(path) = 3
  THEN [parentNode |-> kids[path[2] + 1], parentPath |-> pathOf(path[2]),
        isCommandInput |-> kids[path[2] + 1].type = "command-input"]
  ELSE [parentNode |-> paragraph, parentPath |-> <<0>>, isCommandInput |-> FALSE]

\* no previous, no next node
noEntry == [found |-> FALSE, node |-> paragraph, path |-> Null, isCommandInput |-> FALSE]

\* Editor.previous(editor, { at: path }): the sibling before the node at path;
\* the text of an inline element has no sibling
getPrevious(kids, path) ==
  IF Len(path) = 2 /\ path[2] >= 1
  THEN [found |-> TRUE, node |-> kids[path[2]], path |-> pathOf(path[2] - 1),
        isCommandInput |-> kids[path[2]].type = "command-input"]
  ELSE noEntry

\* Editor.next(editor, { at: path }): the sibling after the node at path
getNext(kids, path) ==
  IF Len(path) = 2 /\ path[2] + 2 <= Len(kids)
  THEN [found |-> TRUE, node |-> kids[path[2] + 2], path |-> pathOf(path[2] + 1),
        isCommandInput |-> kids[path[2] + 2].type = "command-input"]
  ELSE noEntry

\* an isAtStart that holds wherever the caret is
isAtStartAlways(sel) == TRUE

isAtStart(sel) == sel.offset = 0

\* this.node.text && this.anchor.offset === this.node.text.length
isAtEnd(node, sel) == node.text # <<>> /\ sel.offset = Len(node.text)

\* Node.string(node)
getNodeText(node) == node.text

\* Transforms.removeNodes(editor, { at: path }) of an inline child: the texts
\* on its two sides become one text node
removeNode(kids, path) ==
  LET j == path[2] + 1
  IN SubSeq(kids, 1, j - 2)
       \o <<textNode(kids[j - 1].text \o kids[j + 1].text)>>
       \o SubSeq(kids, j + 2, Len(kids))

\* where the removal of the inline child at path leaves a caret that was in it
\* or at the start of the text after it: at the join of the two texts
caretAfterRemoval(kids, path) ==
  caretAt(pathOf(path[2] - 1), Len(kids[path[2]].text))

\* Transforms.insertNodes(editor, { type: 'math', latex, children: [{ text: '' }] })
\* at a caret in a text child: the text is split around the new node
insertMath(kids, sel, latex) ==
  LET j == sel.path[2] + 1
      t == kids[j].text
  IN SubSeq(kids, 1, j - 1)
       \o <<textNode(SubSeq(t, 1, sel.offset)), math(latex),
            textNode(SubSeq(t, sel.offset + 1, Len(t)))>>
       \o SubSeq(kids, j + 1, Len(kids))

\* the caret after insertMath: in the inserted node
caretAfterInsert(sel) == caretAt(textPathOf(sel.path[2] + 1), 0)

\* Editor.after(editor, path) of an inline child: the start of the text after it
afterPoint(kids, path) == caretAt(pathOf(path[2] + 1), 0)

\* Editor.before(editor, path) of an inline child: the end of the text before it
beforePoint(kids, path) == caretAt(pathOf(path[2] - 1), Len(kids[path[2]].text))

moveToCommandInputStart(kids, commandInputPath) ==
  caretAt(textPathOf(commandInputPath[2]), 0)

moveToCommandInputEnd(kids, commandInputPath) ==
  caretAt(textPathOf(commandInputPath[2]), Len(kids[commandInputPath[2] + 1].text))

\* a key is pressed only while no handler runs, with a collapsed selection
keyPressed == epc \in {"idle", "done"} /\ selection.kind = "caret"

pressed(key, returned) ==
  [key |-> key, returned |-> returned, children |-> children,
   selection |-> selection]

\* the ArrowLeft branch of the earlier component's handleKeyDown: the caret it
\* leaves and whether it called preventDefault
inlineArrowLeft(kids, sel) ==
  LET parent == getParent(kids, sel.path)
      prev == getPrevious(kids, sel.path)
  IN IF parent.isCommandInput /\ sel.offset = 0
     THEN [selection |-> beforePoint(kids, parent.parentPath), prevented |-> TRUE]
     ELSE IF sel.offset = 0 /\ prev.found /\ prev.isCommandInput
     THEN [selection |-> moveToCommandInputEnd(kids, prev.path), prevented |-> TRUE]
     ELSE [selection |-> sel, prevented |-> FALSE]

\* the state of the parser, of filterCommands and of generatePatterns
oldVars == <<parserVars, paletteVars, patternVars, kept>>

KeysInit ==
  /\ children \in Paragraphs(MaxInlines)
  /\ selection \in Carets(children)
  /\ handled = noKey
  /\ epc = "idle"
  /\ commands = commandsRepo
  /\ templateCommands = templateCommandsRepo
  /\ text = <<>>
  /\ pc = "idle"
  /\ ParserFresh
  /\ PaletteIdle
  /\ PatternIdle
  /\ kept = noCall
  /\ CaptureIdle
  /\ BlockIdle

keyFrame == <<paletteVars, patternVars, kept, captureVars, blockVars>>

\* handleKeyPress('ArrowRight', editor, selection)
ArrowRightHandler ==
  /\ keyPressed
  /\ LET parent == getParent(children, selection.path)
         node == nodeAt(children, selection.path)
         next == getNext(children, selection.path)
     IN IF parent.isCommandInput /\ isAtEnd(node, selection)
        THEN /\ selection' = afterPoint(children, parent.parentPath)
             /\ handled' = pressed("ArrowRight", "true")
        ELSE IF isAtEnd(node, selection) /\ next.found /\ next.isCommandInput
        THEN /\ selection' = moveToCommandInputStart(children, next.path)
             /\ handled' = pressed("ArrowRight", "true")
        ELSE /\ selection' = selection
             /\ handled' = pressed("ArrowRight", "false")
  /\ epc' = "done"
  /\ UNCHANGED <<children, parserVars, keyFrame>>

\* handleKeyPress('ArrowLeft', editor, selection)
ArrowLeftHandler ==
  /\ keyPressed
  /\ LET parent == getParent(children, selection.path)
         node == nodeAt(children, selection.path)
         prev == getPrevious(children, selection.path)
     IN IF parent.isCommandInput /\ isAtStart(selection)
        THEN /\ selection' = beforePoint(children, parent.parentPath)
             /\ handled' = pressed("ArrowLeft", "true")
        ELSE IF isAtEnd(node, selection) /\ prev.found /\ prev.isCommandInput
        THEN /\ selection' = moveToCommandInputEnd(children, prev.path)
             /\ handled' = pressed("ArrowLeft", "true")
        ELSE /\ selection' = selection
             /\ handled' = pressed("ArrowLeft", "false")
  /\ epc' = "done"
  /\ UNCHANGED <<children, parserVars, keyFrame>>

\* a Backspace handler that removes the command-input whatever its text
BackspaceHandlerAnyText ==
  /\ keyPressed
  /\ LET parent == getParent(children, selection.path)
     IN IF ~parent.isCommandInput
        THEN /\ handled' = pressed("Backspace", "false")
             /\ UNCHANGED <<children, selection>>
        ELSE /\ children' = removeNode(children, parent.parentPath)
             /\ selection' = caretAfterRemoval(children, parent.parentPath)
             /\ handled' = pressed("Backspace", "true")
  /\ epc' = "done"
  /\ UNCHANGED <<parserVars, keyFrame>>

\* handleKeyPress('Backspace', editor, selection)
BackspaceHandler ==
  /\ keyPressed
  /\ LET parent == getParent(children, selection.path)
     IN IF ~parent.isCommandInput
        THEN /\ handled' = pressed("Backspace", "false")
             /\ UNCHANGED <<children, selection>>
        ELSE IF trim(getNodeText(parent.parentNode)) # <<>>
        THEN /\ handled' = pressed("Backspace", "false")
             /\ UNCHANGED <<children, selection>>
        ELSE /\ children' = removeNode(children, parent.parentPath)
             /\ selection' = caretAfterRemoval(children, parent.parentPath)
             /\ handled' = pressed("Backspace", "true")
  /\ epc' = "done"
  /\ UNCHANGED <<parserVars, keyFrame>>

\* handleKeyPress(' ', editor, selection), up to the call of parseCommandToLatex:
\* the handler returns false, or calls the parser with the command-input's text
SpaceHandlerCall ==
  /\ keyPressed
  /\ LET prev == getPrevious(children, selection.path)
     IN IF ~isAtStart(selection) \/ ~prev.found \/ ~prev.isCommandInput
        THEN /\ handled' = pressed(" ", "false")
             /\ epc' = "done"
             /\ UNCHANGED parserVars
        ELSE /\ handled' = pressed(" ", "pending")
             /\ epc' = "parse"
             /\ text' = getNodeText(prev.node)
             /\ pc' = "call"
             /\ step' = noStep
             /\ pieces' = <<>>
             /\ UNCHANGED <<commands, templateCommands, cmds, templates, stack,
                            result>>
  /\ UNCHANGED <<children, selection, keyFrame>>

\* the parser has returned latexSymbol: removeNode, insertMath, return true
SpaceHandlerReturn ==
  /\ epc = "parse"
  /\ pc = "done"
  /\ LET prev == getPrevious(children, selection.path)
         removed == removeNode(children, prev.path)
         caret == caretAfterRemoval(children, prev.path)
     IN /\ children' = insertMath(removed, caret, result)
        /\ selection' = caretAfterInsert(caret)
  /\ handled' = [handled EXCEPT !.returned = "true"]
  /\ epc' = "done"
  /\ UNCHANGED <<parserVars, keyFrame>>

KeysNext ==
  \/ ArrowRightHandler
  \/ ArrowLeftHandler
  \/ BackspaceHandler
  \/ SpaceHandlerCall
  \/ SpaceHandlerReturn
  \/ Next

KeysSpec == KeysInit /\ [][KeysNext]_vars

----------------------------------------------------------------------------
(* BlockEditor: the palette's state over change events and selections      *)

\* filterCommands(commands, typedText) as one value
filterCommands(dictionary, typed) ==
  IF showsAll(typed) THEN allCommands(dictionary)
  ELSE removeDuplicates(sortMatches(collectMatches(dictionary, lowerTypedOf(typed))))

\* what calculatePalettePosition can return: a position below or above the
\* node, or null when the node has no DOM node
Positions == {"below", "above", "null"}

notInCommandInput ==
  [isInCommandInput |-> FALSE, path |-> Null, node |-> paragraph, position |-> "null"]

\* getCommandInputContext(editor), the palette's position being position
getCommandInputContext(kids, sel, position) ==
  IF sel.kind # "caret" THEN notInCommandInput
  ELSE LET parent == getParent(kids, sel.path)
       IN IF parent.parentNode.type = "command-input"
          THEN [isInCommandInput |-> TRUE, path |-> parent.parentPath,
                node |-> parent.parentNode, position |-> position]
          ELSE notInCommandInput

\* textChild?.text || ''
getCommandInputText(node) == node.text

shouldShowAutocomplete(filtered, isInCommandInput) ==
  isInCommandInput /\ Len(filtered) > 0

\* showCommands && commandPos && filteredCommands.length > 0
paletteRendered ==
  showCommands /\ commandPos # "null" /\ Len(filteredCommands) > 0

\* const initialValue: the paragraph the editor is mounted with
initialValue ==
  <<textNode(<<"T", "y", "p", "e", " ", "h", "e", "r", "e", " ", "b", "e", "f", "o", "r", "e", " ">>),
    commandInput(<<"f", "o", "r", "a", "l", "l">>),
    textNode(<<" ", "a", "n", "d", " ", "t", "y", "p", "e", " ", "h", "e", "r", "e", " ", "a", "f", "t", "e", "r">>)>>

BlockInit ==
  /\ children = initialValue
  /\ selection = noSelection
  /\ handled = noKey
  /\ epc = "idle"
  /\ BlockIdle
  /\ commands = commandsRepo
  /\ templateCommands = templateCommandsRepo
  /\ text = <<>>
  /\ pc = "idle"
  /\ ParserFresh
  /\ PaletteIdle
  /\ PatternIdle
  /\ kept = noCall
  /\ CaptureIdle

blockFrame == <<oldVars, captureVars, handled>>

\* the places the caret is put in: the start and the end of every text
CaretStops(kids) == {c \in Carets(kids) : c.offset \in {0, Len(nodeAt(kids, c.path).text)}}

\* the user puts the caret somewhere, or the editor loses its selection;
\* onChange is then due
MoveCaret ==
  /\ epc = "idle"
  /\ selection' \in (CaretStops(children) \cup {noSelection}) \ {selection}
  /\ epc' = "changed"
  /\ UNCHANGED <<children, blockVars, blockFrame>>

\* the user edits the text of the command-input the caret is in
TypeInCommandInput ==
  /\ epc = "idle"
  /\ selection.kind = "caret"
  /\ getParent(children, selection.path).isCommandInput
  /\ \E t \in CommandTexts :
       /\ children' = [children EXCEPT ![selection.path[2] + 1].text = t]
       /\ selection' = caretAt(selection.path, Len(t))
  /\ epc' = "changed"
  /\ UNCHANGED <<blockVars, blockFrame>>

\* the command-input the caret is in is removed, as the Backspace handler
\* removes it
RemoveCommandInput ==
  /\ epc = "idle"
  /\ selection.kind = "caret"
  /\ getParent(children, selection.path).isCommandInput
  /\ children' = removeNode(children, pathOf(selection.path[2]))
  /\ selection' = caretAfterRemoval(children, pathOf(selection.path[2]))
  /\ epc' = "changed"
  /\ UNCHANGED <<blockVars, blockFrame>>

\* a change event in which a cursor outside a command-input leaves the palette
\* as it is
checkIfInCommandInputNotHiding ==
  /\ LET context == getCommandInputContext(children, selection, "null")
         filtered == filterCommands(commands, getCommandInputText(context.node))
     IN IF context.isInCommandInput
        THEN /\ activeCommandInputPath' = context.path
             /\ \E position \in Positions :
                  commandPos' =
                    getCommandInputContext(children, selection, position).position
             /\ filteredCommands' = filtered
             /\ selectedIndex' = IF selectedIndex >= Len(filtered) THEN 0
                                  ELSE selectedIndex
             /\ showCommands' = shouldShowAutocomplete(filtered, TRUE)
        ELSE /\ activeCommandInputPath' = Null
             /\ selectedIndex' = 0
             /\ UNCHANGED <<showCommands, commandPos, filteredCommands>>
  /\ epc' = "idle"
  /\ UNCHANGED <<children, selection, blockFrame>>

\* onChange, or the timer of handleBackslashClick: checkIfInCommandInput()
checkIfInCommandInput ==
  /\ LET context == getCommandInputContext(children, selection, "null")
         filtered == filterCommands(commands, getCommandInputText(context.node))
     IN IF context.isInCommandInput
        THEN /\ activeCommandInputPath' = context.path
             /\ \E position \in Positions :
                  commandPos' =
                    getCommandInputContext(children, selection, position).position
             /\ filteredCommands' = filtered
             /\ selectedIndex' = IF selectedIndex >= Len(filtered) THEN 0
                                  ELSE selectedIndex
             /\ showCommands' = shouldShowAutocomplete(filtered, TRUE)
        ELSE /\ showCommands' = FALSE
             /\ activeCommandInputPath' = Null
             /\ selectedIndex' = 0
             /\ UNCHANGED <<commandPos, filteredCommands>>
  /\ epc' = "idle"
  /\ UNCHANGED <<children, selection, blockFrame>>

\* a candidate of the rendered palette is chosen:
\* handleCommandSelection(editor, activeCommandInputPath, matchData, setShowCommands)
handleCommandSelection ==
  /\ epc = "idle"
  /\ paletteRendered
  /\ \E m \in 1..Len(filteredCommands) :
       IF activeCommandInputPath = Null
       THEN UNCHANGED <<children, selection, showCommands, epc>>
       ELSE LET displayAlias == filteredCommands[m].displayAlias
            IN /\ children' = [children EXCEPT ![activeCommandInputPath[2] + 1].text =
                                                displayAlias]
               /\ selection' = caretAt(textPathOf(activeCommandInputPath[2]),
                                       Len(displayAlias))
               /\ showCommands' = FALSE
               /\ epc' = "changed"
  /\ UNCHANGED <<commandPos, activeCommandInputPath, filteredCommands, selectedIndex,
                 blockFrame>>

BlockNext ==
  \/ MoveCaret
  \/ TypeInCommandInput
  \/ RemoveCommandInput
  \/ checkIfInCommandInput
  \/ handleCommandSelection

BlockSpec == BlockInit /\ [][BlockNext]_vars

----------------------------------------------------------------------------
(* One placeholder capture of matchTemplate, pass by pass                   *)

\* let value = ''; let depth = 0; const nextPart = parts[partIdx + 1]
CaptureInit ==
  /\ \E t \in CaptureTexts, i \in 0..MaxCaptureLen, part \in NextParts :
       /\ i <= Len(t)
       /\ cap = [noCapture EXCEPT !.text = t, !.start = i, !.currentIndex = i,
                                  !.nextPart = part, !.pc = "loop"]
  /\ commands = <<>>
  /\ templateCommands = <<>>
  /\ text = <<>>
  /\ pc = "idle"
  /\ ParserFresh
  /\ PaletteIdle
  /\ PatternIdle
  /\ kept = noCall
  /\ KeysIdle
  /\ BlockIdle

\* the loop's condition holds: one pass of its body
CaptureIterate ==
  /\ cap.pc = "loop"
  /\ cap.currentIndex < Len(cap.text)
  /\ cap' = captureIteration(cap)
  /\ UNCHANGED <<oldVars, keyVars, blockVars>>

\* the loop's condition fails: capturedValues.push(value.trim())
CaptureEnd ==
  /\ cap.pc = "loop"
  /\ cap.currentIndex >= Len(cap.text)
  /\ cap' = [cap EXCEPT !.pc = "done"]
  /\ UNCHANGED <<oldVars, keyVars, blockVars>>

CaptureNext ==
  \/ CaptureIterate
  \/ CaptureEnd

CaptureSpec == CaptureInit /\ [][CaptureNext]_vars

----------------------------------------------------------------------------
(* Properties                                                              *)

TypeOK ==
  /\ pc \in {"idle", "call", "scan", "subst", "post", "done"}
  /\ fpc \in {"idle", "call", "sort", "filter", "done"}
  /\ gpc \in {"idle", "call", "done"}
  /\ (pc \in {"scan", "subst"}) = (stack # <<>>)
  /\ cap.pc \in {"idle", "loop", "done"}
  /\ epc \in {"idle", "parse", "changed", "done"}
  /\ selection.kind \in {"none", "caret"}
  /\ handled.returned \in {"none", "pending", "true", "false"}
  /\ showCommands \in BOOLEAN
  /\ commandPos \in Positions
  /\ activeCommandInputPath \in {Null} \cup {pathOf(k) : k \in 0..(2 * MaxInlines)}

\* the paragraph as the editor keeps it: a text node, then inline nodes each
\* followed by a text node; the caret in one of its texts
ParagraphNormal ==
  children # <<>> =>
    /\ Len(children) % 2 = 1
    /\ \A j \in 1..Len(children) :
         (children[j].type = "text") = (j % 2 = 1)
    /\ selection.kind = "caret" => selection \in Carets(children)

\* the text is whitespace from end to end (the empty text included)
IsBlank(t) == \A k \in 1..Len(t) : t[k] \in WhiteSpace

\* a is b with some characters left out
RECURSIVE IsSubsequence(_, _)
IsSubsequence(a, b) ==
  IF a = <<>> THEN TRUE
  ELSE IF b = <<>> THEN FALSE
  ELSE IF Head(a) = Head(b) THEN IsSubsequence(Tail(a), Tail(b))
  ELSE IsSubsequence(a, Tail(b))

Contains(s, pat) == indexOf(s, pat, 0) >= 0

RepoDictionary ==
  /\ commands \in {DictRepo.commands, DictReversed.commands}
  /\ templateCommands \in {DictRepo.templateCommands, DictReversed.templateCommands}

\* a template's output with every reference {k} replaced at once by the k-th
\* (0-based) of the values, the template being read once from left to right
RECURSIVE slotFill(_, _)
slotFill(template, values) ==
  IF template = <<>> THEN <<>>
  ELSE IF /\ Len(template) >= 3
          /\ template[1] = "{"
          /\ template[3] = "}"
          /\ \E k \in 1..Len(values) : template[2] = Digit[k]
  THEN LET k == CHOOSE j \in 1..Len(values) : template[2] = Digit[j]
       IN values[k] \o slotFill(SubSeq(template, 4, Len(template)), values)
  ELSE <<Head(template)>> \o slotFill(Tail(template), values)

\* C1: whenever a template has matched and its values have been substituted, the
\* text appended to the result is the template's output with every reference {k}
\* replaced by the final value of the k-th capture (its recursive parse, or
\* \square when that is empty): each value in its own slot, none written into
\* another slot or into the text of an earlier value.
C1_SlotSubstitution ==
  step.kind = "template" => step.out = slotFill(step.template, step.finals)

pmodOpen == <<"\\", "!", "\\", "p", "m", "o", "d", "{">>

\* C2: with the repository's dictionaries "mod 5" becomes \!\pmod{5}, and so does
\* "mod v" become \!\pmod{v} for a plain token v (here a single digit).
C2_ModFive ==
  (/\ pc = "done"
   /\ RepoDictionary
   /\ Len(text) = 5
   /\ SubSeq(text, 1, 4) = <<"m", "o", "d", " ">>
   /\ text[5] \in {"1", "5"})
  => result = pmodOpen \o <<text[5], "}">>

\* what the outermost scan loop copied through, character by character
passedChars ==
  flat([k \in 1..Len(pieces) |->
          IF pieces[k].kind = "pass" THEN pieces[k].out ELSE <<>>])

\* no alias was recognised and no template matched
OnlyPassthrough == \A k \in 1..Len(pieces) : pieces[k].kind = "pass"

\* t with \; after every comma
commaSpaced(t) ==
  flat([k \in 1..Len(t) |-> IF t[k] = "," THEN thinSpaceComma ELSE <<t[k]>>])

\* t with every brace escaped and \; after every comma
escapedAndSpaced(t) ==
  flat([k \in 1..Len(t) |->
          CASE t[k] = "," -> thinSpaceComma
            [] t[k] = "{" -> escapedLeft
            [] t[k] = "}" -> escapedRight
            [] OTHER -> <<t[k]>>])

\* t from its first to its last character that is not whitespace
stripBlanks(t) ==
  LET inked == {k \in 1..Len(t) : t[k] \notin WhiteSpace}
  IN IF inked = {} THEN <<>>
     ELSE SubSeq(t, CHOOSE k \in inked : \A j \in inked : k <= j,
                    CHOOSE k \in inked : \A j \in inked : k >= j)

latex_forall == <<"\\", "f", "o", "r", "a", "l", "l">>
latex_RRsquared == <<"\\", "m", "a", "t", "h", "b", "b", "{", "R", "}", "^", "2">>
latex_in == <<"\\", "i", "n">>
latex_QQ == <<"\\", "m", "a", "t", "h", "b", "b", "{", "Q", "}">>

\* the characters the claim lists as word boundaries, end of input aside
ListedBoundaries ==
  {" ", "\t", "\n", "\r", "\f", ",", "^", "_", "{", "}", "(", ")", "[", "]", ":", "."}

\* C4: an alias is replaced by its symbol only where the text slice equals the
\* alias and the next character is the end of the input, whitespace, a comma or
\* one of ^ _ { } ( ) [ ] : . ; so "forall" becomes \forall, "RR^2" becomes
\* \mathbb{R}^2, and "forall67" and "RRabc" are returned unchanged.
C4_WordBoundary ==
  /\ step.kind = "alias" =>
       /\ SubSeq(step.text, step.at + 1, step.end) = step.pattern
       /\ \/ step.end = Len(step.text)
          \/ step.end < Len(step.text) /\ step.text[step.end + 1] \in ListedBoundaries
  /\ (pc = "done" /\ RepoDictionary) =>
       /\ text = text_forall => result = latex_forall
       /\ text = text_RRsquared => result = latex_RRsquared
       /\ text = text_forall67 => result = text_forall67
       /\ text = text_RRabc => result = text_RRabc

C4_Witness ==
  /\ step.kind = "alias"
  /\ step.text = text_RRsquared
  /\ step.pattern = <<"R", "R">>
  /\ step.text[step.end + 1] = "^"

AliasesOf(c) == {commands[c].command[a] : a \in 1..Len(commands[c].command)}

\* the aliases of the dictionary that match the text at a position, each
\* followed by a word boundary
MatchingAliases(txt, at) ==
  UNION {{p \in AliasesOf(c) : aliasMatches(txt, at, p)} : c \in 1..Len(commands)}

\* C5: where no template matches and several aliases match, the longest of them
\* is the one replaced, whatever the order of declaration; "an element of"
\* becomes \in once and nothing else.
C5_LongestAlias ==
  /\ step.kind = "alias" =>
       \A p \in MatchingAliases(step.text, step.at) : Len(p) <= Len(step.pattern)
  /\ (pc = "done" /\ RepoDictionary) =>
       /\ text = text_anElementOf => result = latex_in
       /\ text = text_rationalNumbers => result = latex_QQ

C5_Witness ==
  /\ step.kind = "alias"
  /\ step.text = text_rationalNumbers
  /\ step.pattern = text_rationalNumbers
  /\ Cardinality(MatchingAliases(step.text, step.at)) = 2
  /\ commands = DictRepo.commands

ifThenPattern == <<"i", "f", " ", "{", "}", " ", "t", "h", "e", "n", " ", "{", "}">>

\* the first iteration of the outermost loop was of this kind, at index 0
FirstPieceIs(kind, pattern, values) ==
  /\ Len(pieces) >= 1
  /\ pieces[1].kind = kind
  /\ pieces[1].at = 0
  /\ pieces[1].pattern = pattern
  /\ pieces[1].values = values

\* C6 as stated: "if {} then {}" matches "if (x and y) then z" from index 0 and
\* captures "x and y" and "z".
C6_Original ==
  (pc = "done" /\ text = text_ifParen /\ templateCommands # <<>>) =>
    FirstPieceIs("template", ifThenPattern, <<<<"x", " ", "a", "n", "d", " ", "y">>, <<"z">>>>)

\* C6 as amended: the match succeeds and captures "(x and y)", the group with
\* its parentheses, and "z".
C6_ParenCapture ==
  (pc = "done" /\ text = text_ifParen /\ templateCommands # <<>>) =>
    FirstPieceIs("template", ifThenPattern, <<<<"(", "x", " ", "a", "n", "d", " ", "y", ")">>, <<"z">>>>)

C6_Witness ==
  /\ pc = "done"
  /\ text = text_ifParen
  /\ templateCommands = templateCommandsRepo
  /\ pieces[1].end = Len(text_ifParen)
  /\ result = <<"{", "(", "x", " ", "\\", "w", "e", "d", "g", "e", " ", "y", ")", "}", " ", "\\", "r", "i", "g", "h", "t", "a", "r", "r", "o", "w", " ", "{", "z", "}">>

\* the braces of a typed text, in order
typedBraces(t) == SelectSeq(t, LAMBDA c : c \in {"{", "}"})

\* the braces of an output that stand right after a backslash, in order
escapedBracesOf(r) ==
  flat([k \in 1..Len(r) |->
          IF k > 1 /\ r[k] \in {"{", "}"} /\ r[k - 1] = "\\" THEN <<r[k]>> ELSE <<>>])

\* C7: every typed { is in the output as \{ and every typed } as \}, in the order
\* typed, and no sentinel token is left in the output.
C7_BracePreservation ==
  pc = "done" =>
    /\ IsSubsequence(typedBraces(text), escapedBracesOf(result))
    /\ ~Contains(result, LBRACE_TOKEN)
    /\ ~Contains(result, RBRACE_TOKEN)

\* C8: the empty text and every whitespace-only text give the empty string,
\* whatever the dictionaries.
C8_BlankInput == (pc = "done" /\ IsBlank(text)) => result = <<>>

C8_Witness ==
  /\ pc = "done"
  /\ IsBlank(text)
  /\ \E k \in 1..Len(text) : text[k] = "\t"
  /\ templateCommands = <<>>

\* a bound on the steps a call of parseRecursive has left with m characters to
\* scan, its return included
scanCost(m) == 6 * m + 1

RECURSIVE valuesCost(_, _)
valuesCost(values, from) ==
  IF from > Len(values) THEN 0
  ELSE 1 + scanCost(Len(values[from])) + valuesCost(values, from + 1)

\* the steps a frame has left once the values before `from` are dealt with: the
\* other values, appending the output, and the scan from endIndex on
pendingCost(frame, from) ==
  valuesCost(frame.values, from) + 1 + scanCost(Len(frame.text) - frame.endIndex)

frameCost(k) ==
  IF k < Len(stack) THEN pendingCost(stack[k], stack[k].idx + 2)
  ELSE IF pc = "scan" THEN scanCost(Len(stack[k].text) - stack[k].i)
  ELSE pendingCost(stack[k], stack[k].idx + 1)

RECURSIVE stackCost(_)
stackCost(k) == IF k > Len(stack) THEN 0 ELSE frameCost(k) + stackCost(k + 1)

\* a bound on the steps the call of parseCommandToLatex has left (a sentinel
\* token is twelve characters long)
variant ==
  CASE pc = "done" -> 0
    [] pc = "post" -> 1
    [] pc = "call" -> 2 + scanCost(12 * Len(text))
    [] OTHER -> 1 + stackCost(1)

\* C9: every iteration of the scan loop leaves the index larger than it found it,
\* every recursive call is on a text shorter than its caller's, the recursion is
\* never deeper than the input is long, and the call ends: a natural number that
\* bounds the steps left gets smaller with every step.
C9_ForwardProgress ==
  /\ [][(stack # <<>> /\ Len(stack') = Len(stack) /\ pc' = "scan")
          => top'.i > top.i]_vars
  /\ [][(stack # <<>> /\ Len(stack') = Len(stack) + 1)
          => Len(top'.text) < Len(top.text)]_vars
  /\ [](Len(stack) >= 1 => Len(stack) - 1 <= Len(text))
  /\ [][variant' < variant /\ variant' >= 0]_vars

C9_Witness ==
  /\ Len(stack) = 3
  /\ pc = "scan"
  /\ top.i > 0
  /\ stack[1].i = 0

\* C10, for a text without braces (its sentinel form is the trimmed text): the
\* characters the outermost loop neither matched as a template nor as an alias
\* are all in the output, in the order typed.
C10_Passthrough ==
  (pc = "done" /\ typedBraces(text) = <<>>) => IsSubsequence(passedChars, result)

----------------------------------------------------------------------------
(* Properties of filterCommands                                            *)

\* the same character, the case of a letter aside
SameLetter(a, b) ==
  \/ a = b
  \/ \E j \in 1..Len(upperCase) : {a, b} = {upperCase[j], lowerCase[j]}

\* alias equals typed, case aside
EqualsIgnoringCase(alias, typed) ==
  /\ Len(alias) = Len(typed)
  /\ \A k \in 1..Len(typed) : SameLetter(alias[k], typed[k])

\* alias equals or starts with typed, case aside
BeginsIgnoringCase(alias, typed) ==
  /\ Len(alias) >= Len(typed)
  /\ \A k \in 1..Len(typed) : SameLetter(alias[k], typed[k])

\* a call of filterCommands has returned, its typedText a string
Filtered == fpc = "done" /\ typedText # NotAString

\* the typed text without its leading and trailing whitespace
TrimmedTyped == stripBlanks(typedText)

\* the (0-based) alias indices of a command that qualify for the typed text
QualifyingIndices(cmd) ==
  {a \in 0..(Len(cmd.command) - 1) : BeginsIgnoringCase(cmd.command[a + 1], TrimmedTyped)}

\* C11: for an empty or whitespace-only typedText the result has exactly one
\* candidate per command of the dictionary, in dictionary order, each with the
\* command's first alias as displayAlias and matchIndex 0.
C11_BlankTyped ==
  (Filtered /\ IsBlank(typedText)) =>
    /\ Len(unique) = Len(commands)
    /\ \A c \in 1..Len(commands) :
         /\ unique[c].command = commands[c]
         /\ unique[c].displayAlias = commands[c].command[1]
         /\ unique[c].matchIndex = 0

C11_Witness ==
  /\ Filtered
  /\ typedText = typed_tab
  /\ commands = commandsRepo
  /\ Len(unique) = 20
  /\ unique[20].displayAlias = <<"}">>

\* C12: for a typedText that is not blank, a command is in the result if and
\* only if one of its aliases equals or starts with the trimmed typedText, case
\* aside; a candidate is marked exact (0) when its displayAlias equals the
\* trimmed typedText, case aside, and prefix (1) otherwise; when no alias
\* qualifies the result is the empty list.
C12_Candidates ==
  (Filtered /\ ~IsBlank(typedText)) =>
    /\ \A c \in 1..Len(commands) :
         (\E k \in 1..Len(unique) : unique[k].command = commands[c])
           <=> QualifyingIndices(commands[c]) # {}
    /\ \A k \in 1..Len(unique) :
         unique[k].matchQuality =
           IF EqualsIgnoringCase(unique[k].displayAlias, TrimmedTyped) THEN 0 ELSE 1
    /\ (\A c \in 1..Len(commands) : QualifyingIndices(commands[c]) = {})
         => unique = <<>>

C12_Witness ==
  /\ Filtered
  /\ typedText = typed_IMP
  /\ commands = commandsList
  /\ Len(unique) = 1
  /\ unique[1].displayAlias = <<"I", "m", "p", "l", "i", "e", "s">>
  /\ unique[1].matchQuality = 1

\* the sort key (quality, alias index, alias length) of a is not after that of b
KeyNotAfter(a, b) ==
  \/ a.matchQuality < b.matchQuality
  \/ /\ a.matchQuality = b.matchQuality
     /\ \/ a.matchIndex < b.matchIndex
        \/ a.matchIndex = b.matchIndex /\ a.aliasLength <= b.aliasLength

\* C13: the result for a typedText that is not blank is ordered by quality
\* (exact before prefix), then alias index, then alias length: the key of a
\* candidate is never after the key of the next one; with the commands
\* ["in", "an element of"] and ["ZZ", "int", "integers"] in the dictionary and
\* "in" typed, the exact candidate "in" comes before the prefix candidate "int".
C13_Order ==
  (Filtered /\ ~IsBlank(typedText)) =>
    /\ \A k \in 1..(Len(unique) - 1) : KeyNotAfter(unique[k], unique[k + 1])
    /\ (typedText = typed_in /\ commands = commandsRepo) =>
         \E j, k \in 1..Len(unique) :
           /\ j < k
           /\ unique[j].displayAlias = typed_in /\ unique[j].matchQuality = 0
           /\ unique[k].displayAlias = typed_int /\ unique[k].matchQuality = 1

C13_Witness ==
  /\ Filtered
  /\ typedText = typed_in
  /\ commands = commandsRepo
  /\ Len(unique) = 2
  /\ unique[1].displayAlias = typed_in
  /\ unique[2].displayAlias = typed_int

\* C14: the result never has two candidates of the same command, nor two with
\* the same output symbol, and the candidate of a command is the first under the
\* order (quality, alias index, alias length) of the command's qualifying aliases.
C14_OnePerCommand ==
  Filtered =>
    /\ \A j, k \in 1..Len(unique) :
         j # k => /\ unique[j].command # unique[k].command
                  /\ unique[j].command.symbol # unique[k].command.symbol
    /\ ~IsBlank(typedText) =>
         \A k \in 1..Len(unique) :
           \A a \in QualifyingIndices(unique[k].command) :
             LET alias == unique[k].command.command[a + 1]
             IN KeyNotAfter(unique[k],
                            [matchQuality |-> IF EqualsIgnoringCase(alias, TrimmedTyped)
                                              THEN 0 ELSE 1,
                             matchIndex |-> a,
                             aliasLength |-> Len(alias)])

C14_Witness ==
  /\ Filtered
  /\ typedText = typed_in
  /\ commands = commandsRepo
  /\ Len(matches) = 3
  /\ Len(unique) = 2

----------------------------------------------------------------------------
(* Properties of a session                                                 *)

\* C15: a call of parseCommandToLatex with the text and dictionaries of an
\* earlier call returns the string that call returned, and a call of
\* filterCommands with the dictionary and typedText of an earlier call returns
\* the list that call returned, whatever was called in between.
C15_Determinism ==
  /\ (kept.fn = "parseCommandToLatex" /\ pc = "done" /\ text = kept.arg)
       => result = kept.value
  /\ (kept.fn = "filterCommands" /\ fpc = "done" /\ typedText = kept.arg)
       => unique = kept.value

C15_Witness ==
  /\ kept.fn = "parseCommandToLatex"
  /\ kept.arg = text_mod5
  /\ kept.again
  /\ pc = "done"
  /\ text = text_mod5
  /\ templateCommands = templateCommandsRepo
  /\ fpc = "done"

\* C16: no step of a call of parseCommandToLatex or of filterCommands changes
\* the commands array, an alias list in it or the templateCommands array, the
\* calls following one another or interleaved.
C16_DictionariesUnchanged ==
  [][commands' = commands /\ templateCommands' = templateCommands]_vars

C16_Witness ==
  /\ pc = "done"
  /\ fpc = "done"
  /\ commands = commandsRepo
  /\ templateCommands = templateCommandsRepo
  /\ cmds # <<>>
  /\ cmds # buildCmds(commands)
  /\ Len(matches) > Len(unique)

----------------------------------------------------------------------------
(* Properties of the post-processing, the placeholder and the tables       *)

\* r without the \; that stands right after a comma
RECURSIVE dropThinSpaces(_)
dropThinSpaces(r) ==
  IF r = <<>> THEN <<>>
  ELSE IF Len(r) >= 3 /\ SubSeq(r, 1, 3) = thinSpaceComma
  THEN <<",">> \o dropThinSpaces(SubSeq(r, 4, Len(r)))
  ELSE <<Head(r)>> \o dropThinSpaces(Tail(r))

\* C17: in every output each comma is immediately followed by \; , and the
\* output is the brace-restored result of the parse with nothing changed but
\* those insertions: taking the \; after each comma away gives the parse result
\* with its sentinels restored to \{ and \}.
C17_CommaSpacing ==
  /\ [](pc = "done" =>
          \A k \in 1..Len(result) :
            result[k] = "," => /\ k + 2 <= Len(result)
                               /\ result[k + 1] = "\\"
                               /\ result[k + 2] = ";")
  /\ [][(pc = "post" /\ pc' = "done")
          => dropThinSpaces(result') = restoreBraces(result)]_vars

C17_Witness ==
  /\ pc = "done"
  /\ text = <<"{", ",", ",">>
  /\ result = <<"\\", "{", ",", "\\", ";", ",", "\\", ";">>

\* C18: when a template has matched, a slot is given \square exactly when the
\* parse of its captured value is empty (the value is empty: the dictionaries
\* have no empty symbol), and then the template's output has \square in that
\* slot and the other values in theirs.
C18_SquarePlaceholder ==
  step.kind = "template" =>
    /\ \A k \in 1..Len(step.values) :
         (step.finals[k] = square) <=> (step.values[k] = <<>>)
    /\ (\E k \in 1..Len(step.values) : step.values[k] = <<>>)
         => step.out = slotFill(step.template, step.finals)

\* the places of the dictionary a table entry can be made from: command (or
\* template) number and alias (or pattern) number
placeInCommands(entry) ==
  UNION {{<<c, a>> : a \in {n \in 1..Len(commands[c].command) :
                              /\ commands[c].command[n] = entry.pattern
                              /\ commands[c].symbol = entry.symbol}} :
         c \in 1..Len(commands)}

placeInTemplates(entry) ==
  UNION {{<<t, p>> : p \in {n \in 1..Len(templateCommands[t].patterns) :
                              /\ templateCommands[t].patterns[n] = entry.pattern
                              /\ templateCommands[t].template = entry.template}} :
         t \in 1..Len(templateCommands)}

\* place x is declared before place y
DeclaredBefore(x, y) == x[1] < y[1] \/ (x[1] = y[1] /\ x[2] < y[2])

RECURSIVE SumOf(_, _)
SumOf(counts, k) == IF k > Len(counts) THEN 0 ELSE counts[k] + SumOf(counts, k + 1)

\* a table is sorted by pattern length, longest first, entries of equal length
\* in declaration order (each entry not after the next), with exactly one entry
\* per declared place
SortedStably(table, placeOf(_), declared) ==
  LET places == [k \in 1..Len(table) |-> placeOf(table[k])]
  IN /\ Len(table) = declared
     /\ \A k \in 1..Len(table) : Cardinality(places[k]) = 1
     /\ Cardinality(UNION {places[k] : k \in 1..Len(table)}) = declared
     /\ \A k \in 1..(Len(table) - 1) :
          /\ Len(table[k].pattern) >= Len(table[k + 1].pattern)
          /\ Len(table[k].pattern) = Len(table[k + 1].pattern)
               => \A x \in places[k] : \A y \in places[k + 1] : DeclaredBefore(x, y)

\* parseRecursive has just been called by parseCommandToLatex
HandedOver == pc = "scan" /\ Len(stack) = 1 /\ top.i = 0 /\ top.result = <<>>

\* C19: the alias table and the template table handed to parseRecursive are
\* sorted by pattern length, longest first, patterns of equal length in the
\* order the dictionary declares them, and have exactly one entry per alias of
\* every command and one per pattern of every template.
C19_SortedTables ==
  HandedOver =>
    /\ SortedStably(cmds, placeInCommands,
                    SumOf([c \in 1..Len(commands) |-> Len(commands[c].command)], 1))
    /\ SortedStably(templates, placeInTemplates,
                    SumOf([t \in 1..Len(templateCommands) |->
                             Len(templateCommands[t].patterns)], 1))

C19_Witness ==
  /\ HandedOver
  /\ commands = commandsRepo
  /\ templateCommands = templateCommandsRepo
  /\ Len(cmds) = 40
  /\ Len(templates) = 6
  /\ cmds[1].pattern = <<"i", "r", "r", "a", "t", "i", "o", "n", "a", "l", " ", "n", "u", "m", "b", "e", "r", "s">>
  /\ cmds # buildCmds(commands)
  /\ \E k \in 1..39 : Len(cmds[k].pattern) = Len(cmds[k + 1].pattern)

----------------------------------------------------------------------------
(* Properties of generatePatterns                                          *)

\* one pattern per choice of one alias from every group, the first group varying
\* slowest: each alias followed by " {}" and a space before the next alias
RECURSIVE spacedPatterns(_)
spacedPatterns(groups) ==
  IF groups = <<>> THEN << <<>> >>
  ELSE LET rests == spacedPatterns(Tail(groups))
       IN flat([a \in 1..Len(Head(groups)) |->
                  [r \in 1..Len(rests) |->
                     Head(groups)[a] \o spacedPlaceholder
                       \o (IF rests[r] = <<>> THEN <<>> ELSE <<" ">> \o rests[r])]])

RECURSIVE ProductOf(_, _)
ProductOf(counts, k) ==
  IF k > Len(counts) THEN 1 ELSE counts[k] * ProductOf(counts, k + 1)

\* C20: for alias groups none of which is empty, generatePatterns returns one
\* pattern per choice of one alias from every group, in declaration order with
\* the first group varying slowest, each pattern the chosen aliases each followed
\* by " {}" and separated from the next alias by a space; for no group at all it
\* returns [''].
C20_GeneratePatterns ==
  (gpc = "done" /\ \A g \in 1..Len(aliases) : aliases[g] # <<>>) =>
    /\ Len(patterns) = ProductOf([g \in 1..Len(aliases) |-> Len(aliases[g])], 1)
    /\ patterns = spacedPatterns(aliases)

----------------------------------------------------------------------------
(* Properties of the scan order and of the capture                         *)

\* the templates of the table that match the text at a position
MatchingTemplates(txt, at) ==
  {k \in 1..Len(templates) : matchTemplate(txt, at, templates[k].pattern).matched}

\* C21: at every scan position the templates come before the aliases: an alias
\* is replaced only where no template of the table matches, and where templates
\* match the one applied is the first of the table that does, also where an
\* alias matches at the same position.
C21_TemplatesFirst ==
  /\ step.kind = "alias" => MatchingTemplates(step.text, step.at) = {}
  /\ step.kind = "match" =>
       \E j \in MatchingTemplates(step.text, step.at) :
         /\ templates[j].pattern = step.pattern
         /\ templates[j].template = step.template
         /\ \A k \in MatchingTemplates(step.text, step.at) : j <= k

C21_Witness ==
  /\ step.kind = "match"
  /\ step.text = <<"R", "R", " ", "/">>
  /\ step.at = 0
  /\ step.pattern = <<"{", "}", "/", "{", "}">>
  /\ aliasMatches(step.text, step.at, <<"R", "R">>)
  /\ commands = commandsRepo

\* the parenthesis depth after the first n characters of t
RECURSIVE DepthAfter(_, _)
DepthAfter(t, n) ==
  IF n = 0 THEN 0
  ELSE DepthAfter(t, n - 1)
       + (IF t[n] = "(" THEN 1 ELSE IF t[n] = ")" THEN -1 ELSE 0)

\* every ")" of t closes a "(" before it, and every "(" is closed
Balanced(t) ==
  /\ \A n \in 1..Len(t) : DepthAfter(t, n) >= 0
  /\ DepthAfter(t, Len(t)) = 0

\* C27: when a template of the dictionary matches in a text whose parentheses
\* are balanced, every value it captures is balanced too: no capture ends between
\* a "(" it took and the ")" that closes it.
C27_BalancedCaptures ==
  (step.kind = "match" /\ Balanced(step.text)) =>
    \A k \in 1..Len(step.values) : Balanced(step.values[k])

Letters == {upperCase[k] : k \in 1..Len(upperCase)} \cup {lowerCase[k] : k \in 1..Len(lowerCase)}

Digits == {"0", "1", "2", "3", "4", "5", "6", "7", "8", "9"}

\* C28: an alias is replaced only where it stands as a whole token: never where
\* a letter or a digit stands right before it, as before the "or" that ends "for".
C28_WholeToken ==
  step.kind = "alias" =>
    \/ step.at = 0
    \/ step.text[step.at] \notin (Letters \cup Digits)

\* C30: every candidate filterCommands returns, whatever the typedText, agrees
\* with its command: matchIndex is an index of the command's alias list and the
\* alias there is displayAlias, in the letter case the dictionary gives it.
C30_CandidateConsistent ==
  fpc = "done" =>
    \A k \in 1..Len(unique) :
      /\ unique[k].matchIndex \in 0..(Len(unique[k].command.command) - 1)
      /\ unique[k].command.command[unique[k].matchIndex + 1] = unique[k].displayAlias

C30_Witness ==
  /\ fpc = "done"
  /\ typedText = <<"I">>
  /\ commands = commandsList
  /\ \E k \in 1..Len(unique) :
       /\ unique[k].displayAlias = <<"I", "f", "f">>
       /\ unique[k].matchIndex = 0
  /\ \E k \in 1..Len(unique) : unique[k].displayAlias = <<"i", "n">>

\* the loop taken pass by pass stops where the capture of matchParts stops
CaptureAsOperator ==
  cap.pc = "done" =>
    capture(cap.text, cap.start, cap.nextPart, 0, <<>>)
      = [value |-> cap.value, currentIndex |-> cap.currentIndex, depth |-> cap.depth]

\* C22: during a placeholder capture the parenthesis depth is never negative:
\* '(' increments it, ')' decrements it only when it is positive, and a ')' met
\* at depth 0 ends the capture without being added to the value and without
\* being passed (the index still points at it)
C22_DepthNeverNegative ==
  /\ [](cap.depth >= 0)
  /\ [][(cap.pc = "loop" /\ cap.currentIndex < Len(cap.text)) =>
         LET char == cap.text[cap.currentIndex + 1]
         IN /\ char = "(" => cap'.depth = cap.depth + 1
            /\ (char = ")" /\ cap.depth > 0) => cap'.depth = cap.depth - 1
            /\ (char = ")" /\ cap.depth = 0) =>
                 /\ cap'.pc = "done"
                 /\ cap'.value = cap.value
                 /\ cap'.currentIndex = cap.currentIndex
                 /\ cap'.depth = 0
            /\ char \notin {"(", ")"} => cap'.depth = cap.depth]_vars

\* "(x))" read from its start: the group is captured whole and the capture has
\* stopped at the second ')', met at depth 0
C22_Witness ==
  /\ cap.pc = "done"
  /\ cap.text = <<"(", "x", ")", ")">>
  /\ cap.start = 0
  /\ cap.value = <<"(", "x", ")">>
  /\ cap.currentIndex = 3
  /\ cap.depth = 0

----------------------------------------------------------------------------
(* Properties of the key handlers                                          *)

\* a key has been pressed and its handler has returned
KeyHandled(key) == handled.key = key /\ epc = "done"

\* C23: ArrowLeft with the caret at offset 0 of a non-empty text node outside a
\* command-input, the node before it a command-input: the handler moves the
\* caret to the end of that command-input's text and returns true, as the
\* ArrowLeft branch of the earlier component does
C23_EntersFromRight ==
  LET kids == handled.children
      sel == handled.selection
  IN (/\ KeyHandled("ArrowLeft")
      /\ Len(sel.path) = 2
      /\ sel.offset = 0
      /\ kids[sel.path[2] + 1].text # <<>>
      /\ sel.path[2] >= 1
      /\ kids[sel.path[2]].type = "command-input")
     => /\ handled.returned = "true"
        /\ selection = caretAt(textPathOf(sel.path[2] - 1), Len(kids[sel.path[2]].text))
        /\ inlineArrowLeft(kids, sel) = [selection |-> selection, prevented |-> TRUE]

\* C24: the Space handler returns true exactly when the caret is at offset 0 of
\* its node and the node before it is a command-input; then the document is the
\* one before with that command-input replaced by one math node whose latex is
\* what parseCommandToLatex returned for the command-input's text; otherwise it
\* returns false and the document is the one before
C24_SpaceHandler ==
  LET kids == handled.children
      sel == handled.selection
      k == sel.path[2]
      applies == /\ sel.offset = 0
                 /\ Len(sel.path) = 2
                 /\ k >= 1
                 /\ kids[k].type = "command-input"
  IN KeyHandled(" ") =>
       IF applies
       THEN /\ handled.returned = "true"
            /\ pc = "done"
            /\ text = kids[k].text
            /\ children = [kids EXCEPT ![k] = math(result)]
       ELSE /\ handled.returned = "false"
            /\ children = kids

\* Space after the command-input "mod 5": the node is now the math node of
\* \!\pmod{{5}}
C24_Witness ==
  /\ KeyHandled(" ")
  /\ handled.returned = "true"
  /\ handled.children = <<textNode(<<>>), commandInput(<<"m", "o", "d", " ", "5">>),
                           textNode(<<"a", "b">>)>>
  /\ children = <<textNode(<<>>),
                  math(<<"\\", "!", "\\", "p", "m", "o", "d", "{", "{", "5", "}", "}">>),
                  textNode(<<"a", "b">>)>>

\* C25: the Backspace handler removes a node only when the caret is in a
\* command-input whose text is empty or whitespace: then that command-input,
\* and nothing else, is gone (the texts on its two sides are one node) and true
\* is returned; otherwise false is returned and the document is the one before
C25_BackspaceHandler ==
  LET kids == handled.children
      sel == handled.selection
      j == sel.path[2] + 1
      inBlankInput == /\ Len(sel.path) = 3
                      /\ kids[j].type = "command-input"
                      /\ IsBlank(kids[j].text)
  IN KeyHandled("Backspace") =>
       IF inBlankInput
       THEN /\ handled.returned = "true"
            /\ Len(children) = Len(kids) - 2
            /\ \A i \in 1..(j - 2) : children[i] = kids[i]
            /\ children[j - 1] = textNode(kids[j - 1].text \o kids[j + 1].text)
            /\ \A i \in j..Len(children) : children[i] = kids[i + 2]
       ELSE /\ handled.returned = "false"
            /\ children = kids

\* Backspace in a command-input that holds one space: it is removed
C25_Witness ==
  /\ KeyHandled("Backspace")
  /\ handled.returned = "true"
  /\ handled.children = <<textNode(<<"a", "b">>), commandInput(<<" ">>),
                           textNode(<<"a", "b">>)>>
  /\ handled.selection = caretAt(textPathOf(1), 1)
  /\ children = <<textNode(<<"a", "b", "a", "b">>)>>

----------------------------------------------------------------------------
(* Properties of BlockEditor                                               *)

CursorInCommandInput ==
  /\ selection.kind = "caret"
  /\ Len(selection.path) = 3
  /\ children[selection.path[2] + 1].type = "command-input"

\* C26: the palette is rendered only while activeCommandInputPath is not null
\* and the candidate list is not empty, and a change event that finds the
\* cursor outside a command-input hides the palette and sets
\* activeCommandInputPath to null
C26_PaletteOnlyInCommandInput ==
  /\ [](paletteRendered =>
          (activeCommandInputPath # Null /\ Len(filteredCommands) > 0))
  /\ [][(~CursorInCommandInput /\ checkIfInCommandInput) =>
          (~showCommands' /\ activeCommandInputPath' = Null)]_vars

\* a candidate was chosen (the command-input holds an alias nobody typed), the
\* change event that followed found the cursor in the command-input and the
\* palette is rendered again
C26_Witness ==
  /\ paletteRendered
  /\ activeCommandInputPath = pathOf(1)
  /\ CursorInCommandInput
  /\ children[2].text \notin (CommandTexts \cup {text_forall})

----------------------------------------------------------------------------
(* Properties of the two revisions of the parser                           *)

\* the characters whose handling the later revision changed
RevisedChars == {"(", ")", "{", "}", "^", "_", "[", "]", ":", "."}

\* a template applied while text is parsed from index i on, or while one of its
\* captured values is parsed, captures an empty value
RECURSIVE CapturesEmpty(_, _, _)
CapturesEmpty(txt, i, table) ==
  IF i >= Len(txt) THEN FALSE
  ELSE LET t == firstTemplateInline(txt, i, table.templates)
           c == firstCommandInline(txt, i, table.cmds)
       IN IF t > 0
          THEN LET m == matchTemplateInline(txt, i, table.templates[t].pattern)
               IN \/ \E k \in 1..Len(m.values) :
                       m.values[k] = <<>> \/ CapturesEmpty(m.values[k], 0, table)
                  \/ CapturesEmpty(txt, m.endIndex, table)
          ELSE IF c > 0
          THEN CapturesEmpty(txt, i + Len(table.cmds[c].pattern), table)
          ELSE CapturesEmpty(txt, i + 1, table)

\* the call's text has none of the revised characters and no capture is empty
RevisionsComparable ==
  /\ \A k \in 1..Len(text) : text[k] \notin RevisedChars
  /\ ~CapturesEmpty(trim(text), 0,
                    [cmds |-> sortCmds(buildCmds(commands)),
                     templates |-> sortTemplates(buildTemplatesInline(templateCommands))])

\* C29: for a text without parentheses, braces and ^ _ [ ] : . in which no
\* template captures an empty value, parseCommandToLatex returns what the
\* earlier revision's parseCommandToLatex returns on the same dictionary
C29_RevisionsAgree ==
  (pc = "done" /\ RevisionsComparable) =>
    result = parseCommandToLatexInline(text, commands, templateCommands)

\* "RR/1": both revisions apply the fraction template and the alias RR
C29_Witness ==
  /\ pc = "done"
  /\ text = <<"R", "R", "/", "1">>
  /\ commands = commandsRepo
  /\ RevisionsComparable
  /\ result = parseCommandToLatexInline(text, commands, templateCommands)
  /\ result # text

====
